---- MODULE Spec2Model ----
(***************************************************************************)
(* A model of Interpreter.py: the variable store with its declare/assign   *)
(* lifecycle, the dispatch table and its handlers, the for-loop and        *)
(* function-call control flow, function extraction and import.             *)
(*                                                                         *)
(* Python text (str) is a sequence of one-character strings, so that       *)
(* concatenation, parsing and formatting are computed, not assumed.        *)
(* A Python value is a record [k |-> kind, v |-> payload].                 *)
(* Handlers are operators from an interpreter object to a result, as the   *)
(* methods of class Interpreter.  The Python call stack is explicit: one   *)
(* frame per Interpreter object, and in each frame the active `for` loops  *)
(* of the nested runLine calls.  A step of the state machine is one        *)
(* evaluation of a loop condition or one instruction.                      *)
(***************************************************************************)
EXTENDS Integers, Sequences, FiniteSets, TLC

(***************************************************************************)
(* Bounds of the model.                                                    *)
(***************************************************************************)
\* longest straight-line top-level program drawn in Init
MaxLen == 2
\* longest top-level program drawn from the loop instructions
MaxLoopLen == 2
\* largest literal iteration count of a generated `for`
MaxIter == 3
\* largest literal line count of a generated `for`
MaxLines == 2
\* deepest nesting of Interpreter objects created by run (call depth)
MaxDepth == 3
\* a run is followed until the history holds this many instructions
MaxLog == 40
\* longest file whose function extraction is followed step by step
MaxFile == 4

(***************************************************************************)
(* Python values.                                                          *)
(***************************************************************************)
IntV(n) == [k |-> "int", v |-> n]
DblV(n) == [k |-> "dbl", v |-> n]
StrV(s) == [k |-> "str", v |-> s]
BoolV(b) == [k |-> "bool", v |-> b]
ListV(l) == [k |-> "list", v |-> l]
ObjV(s) == [k |-> "obj", v |-> s]
NoneV == [k |-> "none", v |-> 0]

\* text constants
T(s) == <<s>>
int3 == <<"i", "n", "t">>
str3 == <<"s", "t", "r">>
dbl3 == <<"d", "b", "l">>
boo3 == <<"b", "o", "o">>
ils3 == <<"i", "l", "s">>
sls3 == <<"s", "l", "s">>
dls3 == <<"d", "l", "s">>
bls3 == <<"b", "l", "s">>
vls3 == <<"v", "l", "s">>
TrueText == <<"T", "r", "u", "e">>
FalseText == <<"F", "a", "l", "s", "e">>
NoneText == <<"N", "o", "n", "e">>
ClassStrText == <<"<", "c", "l", "a", "s", "s", " ", "'", "s", "t", "r", "'", ">">>
ClassIntText == <<"<", "c", "l", "a", "s", "s", " ", "'", "i", "n", "t", "'", ">">>
Quote(s) == <<"'">> \o s \o <<"'">>

Digits == {"0", "1", "2", "3", "4", "5", "6", "7", "8", "9"}
DigitVal(c) == CHOOSE n \in 0..9 : ToString(n) = c

\* a result of a Python expression: a value, or the exception it raised
Ok(v) == [exc |-> "", v |-> v]
Raise(e) == [exc |-> e, v |-> NoneV]

\* the value of a non-empty run of decimal digits
RECURSIVE DigitsVal(_)
DigitsVal(s) ==
    IF Len(s) = 0 THEN 0
    ELSE 10 * DigitsVal(SubSeq(s, 1, Len(s) - 1)) + DigitVal(s[Len(s)])

AllDigits(s) == Len(s) > 0 /\ \A i \in 1..Len(s) : s[i] \in Digits

\* text of an integer literal: optional sign, digits
IsIntText(s) ==
    \/ AllDigits(s)
    \/ Len(s) > 1 /\ s[1] \in {"-", "+"} /\ AllDigits(Tail(s))

IntTextVal(s) ==
    IF s[1] = "-" THEN 0 - DigitsVal(Tail(s))
    ELSE IF s[1] = "+" THEN DigitsVal(Tail(s))
    ELSE DigitsVal(s)

\* text of a float literal with a zero fraction: <int>.0 (the model's doubles
\* are the integer-valued ones)
IsDblText(s) ==
    /\ Len(s) > 2
    /\ s[Len(s)] = "0"
    /\ s[Len(s) - 1] = "."
    /\ IsIntText(SubSeq(s, 1, Len(s) - 2))

DblTextVal(s) == IntTextVal(SubSeq(s, 1, Len(s) - 2))

\* decimal text of a natural number
RECURSIVE NatText(_)
NatText(n) ==
    IF n < 10 THEN <<ToString(n)>>
    ELSE NatText(n \div 10) \o <<ToString(n % 10)>>

IntText(n) == IF n < 0 THEN <<"-">> \o NatText(0 - n) ELSE NatText(n)

IsNumber(x) == x.k \in {"int", "dbl", "bool"}
NumVal(x) == IF x.k = "bool" THEN (IF x.v THEN 1 ELSE 0) ELSE x.v

\* Python int(x)
PyInt(x) ==
    CASE x.k = "int" -> Ok(x)
      [] x.k = "dbl" -> Ok(IntV(x.v))
      [] x.k = "bool" -> Ok(IntV(IF x.v THEN 1 ELSE 0))
      [] x.k = "str" -> IF IsIntText(x.v) THEN Ok(IntV(IntTextVal(x.v)))
                        ELSE Raise("ValueError")
      [] OTHER -> Raise("TypeError")

\* Python float(x)
PyFloat(x) ==
    CASE x.k = "int" -> Ok(DblV(x.v))
      [] x.k = "dbl" -> Ok(x)
      [] x.k = "bool" -> Ok(DblV(IF x.v THEN 1 ELSE 0))
      [] x.k = "str" -> IF IsIntText(x.v) THEN Ok(DblV(IntTextVal(x.v)))
                        ELSE IF IsDblText(x.v) THEN Ok(DblV(DblTextVal(x.v)))
                        ELSE Raise("ValueError")
      [] OTHER -> Raise("TypeError")

\* Python bool(x)
PyBool(x) ==
    CASE x.k \in {"int", "dbl"} -> BoolV(x.v # 0)
      [] x.k = "bool" -> x
      [] x.k \in {"str", "list"} -> BoolV(Len(x.v) > 0)
      [] x.k = "none" -> BoolV(FALSE)
      [] OTHER -> BoolV(TRUE)

RECURSIVE PyRepr(_)
RECURSIVE JoinRepr(_)
\* the items of a list display, separated by ", "
JoinRepr(l) ==
    IF Len(l) = 0 THEN <<>>
    ELSE IF Len(l) = 1 THEN PyRepr(l[1])
    ELSE PyRepr(l[1]) \o <<",", " ">> \o JoinRepr(Tail(l))

\* Python repr(x) (texts of the model hold no quote or backslash)
PyRepr(x) ==
    CASE x.k = "int" -> IntText(x.v)
      [] x.k = "dbl" -> IntText(x.v) \o <<".", "0">>
      [] x.k = "bool" -> IF x.v THEN TrueText ELSE FalseText
      [] x.k = "str" -> Quote(x.v)
      [] x.k = "list" -> <<"[">> \o JoinRepr(x.v) \o <<"]">>
      [] x.k = "none" -> NoneText
      [] OTHER -> x.v

\* Python str(x)
PyStr(x) == IF x.k = "str" THEN x ELSE StrV(PyRepr(x))

\* text of a quoted string literal: 'body' with no quote inside
IsStrLit(s) ==
    /\ Len(s) >= 2
    /\ s[1] = "'"
    /\ s[Len(s)] = "'"
    /\ \A i \in 2..(Len(s) - 1) : s[i] # "'"

IsIdent(s) ==
    /\ Len(s) > 0
    /\ \A i \in 1..Len(s) :
          s[i] \in {"a", "b", "c", "d", "e", "f", "g", "h", "i", "j", "k", "l", "m",
                    "n", "o", "p", "q", "r", "s", "t", "u", "v", "w", "x", "y", "z"}

\* Python eval(x), for the expressions the model's texts can spell: integer,
\* float, boolean and string literals, the builtin names int and str, and
\* other identifiers (unbound: NameError).  Any other text is a SyntaxError.
PyEval(x) ==
    IF x.k # "str" THEN Raise("TypeError")
    ELSE LET s == x.v IN
         CASE IsIntText(s) -> Ok(IntV(IntTextVal(s)))
           [] IsDblText(s) -> Ok(DblV(DblTextVal(s)))
           [] s = TrueText -> Ok(BoolV(TRUE))
           [] s = FalseText -> Ok(BoolV(FALSE))
           [] s = NoneText -> Ok(NoneV)
           [] IsStrLit(s) -> Ok(StrV(SubSeq(s, 2, Len(s) - 1)))
           [] s = str3 -> Ok(ObjV(ClassStrText))
           [] s = int3 -> Ok(ObjV(ClassIntText))
           [] IsIdent(s) -> Raise("NameError")
           [] OTHER -> Raise("SyntaxError")

(***************************************************************************)
(* The Interpreter object and the results of its methods.                  *)
(*   variables  : self.variables, a dict from name to value                *)
(*   functions  : self.functions, key -> (params[1:], commands, params);   *)
(*                a call passes the same dict object to the callee         *)
(*   original   : self.original, the source lines used for diagnostics     *)
(*   commands   : self.commands and self.params, zipped                    *)
(*   returnName : self.returnName (function contexts only)                 *)
(*   depth      : nesting depth of this object below the file context      *)
(*   log        : history of the instructions handed to the dispatch table *)
(*   shared     : the names of this context that are bound to the very     *)
(*                list object a variable of the caller is bound to, with   *)
(*                the name of that variable (a list passed to a call is    *)
(*                not copied)                                              *)
(* A source line or instruction is [cmd |-> mnemonic, params |-> tokens],  *)
(* the text cmd + ','.join(params).                                        *)
(***************************************************************************)
Line(c, p) == [cmd |-> c, params |-> p]

NoDiag == [err |-> "", desc |-> "", line |-> -1]
Diag(e, d, l) == [err |-> e, desc |-> d, line |-> l]

\* a method returned r
Ret(self, r) == [self |-> self, ret |-> r, exc |-> "", diag |-> NoDiag]
\* a method raised the Python exception e
Exc(self, e) == [self |-> self, ret |-> "None", exc |-> e, diag |-> NoDiag]

\* list.index(x): the first position (0-based) holding x, or -1 for ValueError
Index(seq, x) ==
    IF \E i \in 1..Len(seq) : seq[i] = x
    THEN (CHOOSE i \in 1..Len(seq) : seq[i] = x /\ \A j \in 1..(i - 1) : seq[j] # x) - 1
    ELSE -1

\* printError(err, description, self.original.index(text)): the argument is
\* evaluated first and raises ValueError when the text is no source line;
\* otherwise the diagnostic is printed and sys.exit() raises SystemExit
printError(self, err, desc, text) ==
    IF Index(self.original, text) = -1 THEN Exc(self, "ValueError")
    ELSE [self |-> self, ret |-> "None", exc |-> "SystemExit",
          diag |-> Diag(err, desc, Index(self.original, text))]

\* dict.update({name: value})
Update(d, name, value) ==
    [n \in DOMAIN d \cup {name} |-> IF n = name THEN value ELSE d[n]]

Bind(self, name, value) ==
    [self EXCEPT !.variables = Update(self.variables, name, value)]

\* the items a Python for/comprehension draws from x; <<>> with ok = FALSE
\* when x is not iterable
IsIterable(x) == x.k \in {"list", "str"}
Items(x) ==
    IF x.k = "list" THEN x.v
    ELSE IF x.k = "str" THEN [i \in 1..Len(x.v) |-> StrV(<<x.v[i]>>)]
    ELSE <<>>

\* the list of results rs as one result: the first exception raised, else
\* the list of the values
Collect(rs) ==
    IF \E i \in 1..Len(rs) : rs[i].exc # ""
    THEN Raise(rs[CHOOSE i \in 1..Len(rs) :
                     rs[i].exc # "" /\ \A j \in 1..(i - 1) : rs[j].exc = ""].exc)
    ELSE Ok(ListV([i \in 1..Len(rs) |-> rs[i].v]))

\* bool(r.v) for the result r of eval, or the exception eval raised
BoolOf(r) == IF r.exc # "" THEN r ELSE Ok(PyBool(r.v))

\* bool(eval(x))
BoolEval(x) == BoolOf(PyEval(x))

\* the declared-but-unset markers: a variable whose value is one of these
\* texts is declared with that kind and not yet assigned
Unset(kind) == StrV(kind)

\* the cast variable() applies for the kind marker held by the name
Cast(marker, value) ==
    CASE marker = Unset(int3) -> PyInt(value)
      [] marker = Unset(str3) -> Ok(PyStr(value))
      [] marker = Unset(dbl3) -> PyFloat(value)
      [] marker = Unset(boo3) -> BoolEval(value)
      [] marker = Unset(ils3) ->
            IF IsIterable(value)
            THEN Collect([i \in 1..Len(Items(value)) |-> PyInt(Items(value)[i])])
            ELSE Raise("TypeError")
      [] marker = Unset(sls3) ->
            IF IsIterable(value)
            THEN Collect([i \in 1..Len(Items(value)) |-> Ok(PyStr(Items(value)[i]))])
            ELSE Raise("TypeError")
      [] marker = Unset(dls3) ->
            IF IsIterable(value)
            THEN Collect([i \in 1..Len(Items(value)) |-> PyFloat(Items(value)[i])])
            ELSE Raise("TypeError")
      [] marker = Unset(bls3) ->
            IF IsIterable(value)
            THEN Collect([i \in 1..Len(Items(value)) |-> BoolEval(Items(value)[i])])
            ELSE Raise("TypeError")
      [] marker = Unset(vls3) -> Ok(value)
      [] OTHER -> Raise("declared")

Markers == {Unset(int3), Unset(str3), Unset(dbl3), Unset(boo3), Unset(ils3),
            Unset(sls3), Unset(dls3), Unset(bls3), Unset(vls3)}

\* self.variables.update({name: r.v}) for the cast value r; True is returned
Bound(self, name, r) ==
    IF r.exc # "" THEN Exc(self, r.exc) ELSE Ret(Bind(self, name, r.v), "True")

\* Interpreter.variable(name, value)
variable(self, name, value) ==
    IF name \notin DOMAIN self.variables THEN Ret(Bind(self, name, value), "True")
    ELSE IF self.variables[name] \notin Markers THEN Ret(self, "Variable")
    ELSE Bound(self, name, Cast(self.variables[name], value))

\* the value an operand token stands for where the code reads
\* self.variables[arg] if arg in self.variables else <the token>
Resolve(self, arg) ==
    IF arg \in DOMAIN self.variables THEN self.variables[arg] ELSE StrV(arg)

\* variable(name, r.v) when the expression r raised nothing
Store(self, name, r) ==
    IF r.exc # "" THEN Exc(self, r.exc) ELSE variable(self, name, r.v)

\* `value if value else marker` of integer/double/boolean
Given(value) == PyBool(value).v

\* Interpreter.integer(name, value=None)
integer(self, name, value) ==
    Store(self, name, IF Given(value) THEN PyInt(value) ELSE Ok(Unset(int3)))

\* str(r.v) for the result r of eval, or the exception eval raised
StrOf(r) == IF r.exc # "" THEN r ELSE Ok(PyStr(r.v))

\* Interpreter.string(name, value='str')
string(self, name, value) ==
    Store(self, name, StrOf(PyEval(value)))

\* Interpreter.double(name, value=None)
double(self, name, value) ==
    Store(self, name, IF Given(value) THEN PyFloat(value) ELSE Ok(Unset(dbl3)))

\* Interpreter.boolean(name, value=None)
boolean(self, name, value) ==
    Store(self, name, IF Given(value) THEN BoolEval(value) ELSE Ok(Unset(boo3)))

\* the element of a typed list builder: the token itself, or the value of the
\* variable it names
ElemOf(self, i) == IF i \in DOMAIN self.variables THEN self.variables[i] ELSE StrV(i)

\* Interpreter.intList(name, *rest)
intList(self, name, rest) ==
    Store(self, name,
          IF Len(rest) > 0
          THEN Collect([i \in 1..Len(rest) |-> PyInt(ElemOf(self, rest[i]))])
          ELSE Ok(Unset(ils3)))

\* Interpreter.strList(name, *rest)
strList(self, name, rest) ==
    Store(self, name,
          IF Len(rest) > 0
          THEN Collect([i \in 1..Len(rest) |-> Ok(PyStr(ElemOf(self, rest[i])))])
          ELSE Ok(Unset(sls3)))

\* Interpreter.dblList(name, *rest)
dblList(self, name, rest) ==
    Store(self, name,
          IF Len(rest) > 0
          THEN Collect([i \in 1..Len(rest) |-> PyFloat(ElemOf(self, rest[i]))])
          ELSE Ok(Unset(dls3)))

\* Interpreter.booList(name, *rest)
booList(self, name, rest) ==
    Store(self, name,
          IF Len(rest) > 0
          THEN Collect([i \in 1..Len(rest) |->
                          IF rest[i] \in DOMAIN self.variables
                          THEN Ok(PyBool(self.variables[rest[i]]))
                          ELSE BoolEval(StrV(rest[i]))])
          ELSE Ok(Unset(bls3)))

\* the expression text self.variables['<name>'].append(<k>)
AppendPre == <<"s", "e", "l", "f", ".", "v", "a", "r", "i", "a", "b", "l", "e", "s", "[", "'">>
AppendMid == <<"'", "]", ".", "a", "p", "p", "e", "n", "d", "(">>
AppendCall(name, k) == AppendPre \o name \o AppendMid \o k \o <<")">>
\* the name and the argument <<name, k>> of a text of that form, with name an
\* identifier and k an integer literal; <<>> for any other text
AppendParts(s) ==
    LET names == { SubSeq(s, Len(AppendPre) + 1, a) : a \in (Len(AppendPre) + 1)..Len(s) }
        args == { SubSeq(s, b, Len(s) - 1) : b \in 1..(Len(s) - 1) }
        found == { p \in names \X args :
                     s = AppendCall(p[1], p[2]) /\ IsIdent(p[1]) /\ IsIntText(p[2]) }
    IN  IF found = {} THEN <<>> ELSE CHOOSE p \in found : TRUE

\* [eval(i) for i in rest] for the one token self.variables[n].append(k),
\* p = <<n, k>>, in a method of self: self.variables[n] raises KeyError for a
\* name that is not bound, only a list has append, and append changes the
\* list object itself, so every name bound to that object holds the longer
\* list; the value of the call is None
EvalAppend(self, p) ==
    IF p[1] \notin DOMAIN self.variables THEN Exc(self, "KeyError")
    ELSE IF self.variables[p[1]].k # "list" THEN Exc(self, "AttributeError")
    ELSE Ret([self EXCEPT !.variables =
                 [m \in DOMAIN @ |->
                    IF \/ m = p[1]
                       \/ /\ m \in DOMAIN self.shared /\ p[1] \in DOMAIN self.shared
                          /\ self.shared[m] = self.shared[p[1]]
                    THEN ListV(Append(self.variables[p[1]].v, IntV(IntTextVal(p[2]))))
                    ELSE @[m]]],
             "None")

\* Interpreter.varList(name, *rest); the one token of an in-place append is
\* evaluated with its effect on the store, and name is then bound to [None]
varList(self, name, rest) ==
    IF Len(rest) = 1 /\ rest[1] \notin DOMAIN self.variables /\ AppendParts(rest[1]) # <<>>
    THEN IF EvalAppend(self, AppendParts(rest[1])).exc # ""
         THEN EvalAppend(self, AppendParts(rest[1]))
         ELSE variable(EvalAppend(self, AppendParts(rest[1])).self, name, ListV(<<NoneV>>))
    ELSE
    Store(self, name,
          IF Len(rest) > 0
          THEN Collect([i \in 1..Len(rest) |->
                          IF rest[i] \in DOMAIN self.variables
                          THEN Ok(self.variables[rest[i]])
                          ELSE PyEval(StrV(rest[i]))])
          ELSE Ok(Unset(vls3)))

\* Interpreter.copy(dest, varIn)
copy(self, dest, varIn) ==
    IF varIn \in DOMAIN self.variables
    THEN variable(self, dest, self.variables[varIn])
    ELSE Ret(self, "Name")

\* list[a:b] for 0 <= a
Slice(l, a, b) == IF b <= a THEN <<>> ELSE SubSeq(l, a + 1, IF b > Len(l) THEN Len(l) ELSE b)

\* popFirst is pop with the slice [1:]: the first element is dropped
popFirst(self, dest, listIn) ==
    IF listIn \notin DOMAIN self.variables THEN Ret(self, "Name")
    ELSE IF self.variables[listIn].k # "list" THEN Ret(self, "Type")
    ELSE variable(self, dest,
                  ListV(Slice(self.variables[listIn].v, 1, Len(self.variables[listIn].v))))

\* Interpreter.pop(dest, listIn): the slice [:-1] of a list is a new list
pop(self, dest, listIn) ==
    IF listIn \notin DOMAIN self.variables THEN Ret(self, "Name")
    ELSE IF self.variables[listIn].k # "list" THEN Ret(self, "Type")
    ELSE variable(self, dest,
                  ListV(Slice(self.variables[listIn].v, 0, Len(self.variables[listIn].v) - 1)))

\* Interpreter.put(dest, var1, var2)
put(self, dest, var1, var2) ==
    IF var1 \notin DOMAIN self.variables \/ var2 \notin DOMAIN self.variables
    THEN Ret(self, "Name")
    ELSE IF self.variables[var1].k = "list" /\ self.variables[var2].k = "list"
    THEN variable(self, dest, ListV(self.variables[var1].v \o self.variables[var2].v))
    ELSE IF self.variables[var1].k = "list"
    THEN variable(self, dest, ListV(Append(self.variables[var1].v, self.variables[var2])))
    ELSE IF self.variables[var2].k = "list"
    THEN variable(self, dest, ListV(<<self.variables[var1]>> \o self.variables[var2].v))
    ELSE Ret(self, "Type")

\* Python x[i] for a list or str x and the result i of the index expression:
\* the index is an int (or bool), -len(x) <= i < len(x), and a negative i
\* counts from the end
Subscript(x, i) ==
    IF i.exc # "" THEN i
    ELSE IF i.v.k \notin {"int", "bool"} THEN Raise("TypeError")
    ELSE IF NumVal(i.v) >= Len(x.v) \/ NumVal(i.v) < 0 - Len(x.v) THEN Raise("IndexError")
    ELSE Ok(Items(x)[(IF NumVal(i.v) >= 0 THEN NumVal(i.v) ELSE Len(x.v) + NumVal(i.v)) + 1])

\* Interpreter.index(dest, listIn, index)
index(self, dest, listIn, idx) ==
    IF listIn \notin DOMAIN self.variables THEN Ret(self, "Name")
    ELSE IF self.variables[listIn].k \notin {"list", "str"} THEN Ret(self, "Type")
    ELSE Store(self, dest,
               Subscript(self.variables[listIn],
                         IF idx \in DOMAIN self.variables THEN Ok(self.variables[idx])
                         ELSE PyInt(StrV(idx))))

\* Interpreter.length(dest, listIn)
length(self, dest, listIn) ==
    IF listIn \notin DOMAIN self.variables THEN Ret(self, "Name")
    ELSE IF self.variables[listIn].k \notin {"list", "str"} THEN Ret(self, "Type")
    ELSE variable(self, dest, IntV(Len(self.variables[listIn].v)))

\* Interpreter.isAvailable(dest, name): the list of kind texts has no 'vls'
isAvailable(self, dest, name) ==
    variable(self, dest,
             IF name \in DOMAIN self.variables
             THEN BoolV(self.variables[name] \in
                          {Unset(int3), Unset(dbl3), Unset(str3), Unset(boo3),
                           Unset(ils3), Unset(dls3), Unset(sls3), Unset(bls3)})
             ELSE BoolV(TRUE))

\* Interpreter.delete(rest...): names are removed one by one up to the first
\* name that is not bound
RECURSIVE delete(_, _)
delete(self, rest) ==
    IF Len(rest) = 0 THEN Ret(self, "True")
    ELSE IF rest[1] \notin DOMAIN self.variables THEN Ret(self, "Name")
    ELSE delete([self EXCEPT !.variables = [n \in DOMAIN @ \ {rest[1]} |-> @[n]],
                             !.shared = [n \in DOMAIN @ \ {rest[1]} |-> @[n]]],
                Tail(rest))

\* Interpreter.comment
comment(self) == Ret(self, "True")

\* Interpreter.throwErr
throwErr(self) == Ret(self, "User")

(***************************************************************************)
(* Arithmetic.                                                             *)
(***************************************************************************)
RECURSIVE Total(_)
Total(l) == IF Len(l) = 0 THEN 0 ELSE NumVal(l[1]) + Total(Tail(l))

\* Python sum(list): int + float is a float; a str or list item is a TypeError
PySum(l) ==
    IF \E i \in 1..Len(l) : ~IsNumber(l[i]) THEN Raise("TypeError")
    ELSE IF \E i \in 1..Len(l) : l[i].k = "dbl" THEN Ok(DblV(Total(l)))
    ELSE Ok(IntV(Total(l)))

RECURSIVE Concat(_)
Concat(l) == IF Len(l) = 0 THEN <<>> ELSE l[1].v \o Concat(Tail(l))

\* Python ''.join(list): every item must be a str
PyJoin(l) ==
    IF \E i \in 1..Len(l) : l[i].k # "str" THEN Raise("TypeError")
    ELSE Ok(StrV(Concat(l)))

\* sum(...) and ''.join(...) of the list that the comprehension with result
\* r built, or the exception the comprehension raised
SumOf(r) == IF r.exc # "" THEN r ELSE PySum(r.v.v)
JoinOf(r) == IF r.exc # "" THEN r ELSE PyJoin(r.v.v)

\* Interpreter.add(dest, first, second, *rest); args is (first, second) + rest
add(self, dest, args) ==
    LET vars == self.variables IN
    IF dest \in DOMAIN vars
       /\ vars[dest] \notin {Unset(int3), Unset(dbl3), Unset(str3), Unset(boo3)}
    THEN Ret(self, "Variable")
    ELSE IF dest \notin DOMAIN vars \/ vars[dest] \in {Unset(int3), Unset(dbl3)}
    THEN Store(self, dest,
               SumOf(Collect([i \in 1..Len(args) |->
                                IF args[i] \in DOMAIN vars THEN Ok(vars[args[i]])
                                ELSE PyFloat(StrV(args[i]))])))
    ELSE IF vars[dest] = Unset(str3)
    THEN Store(self, dest,
               JoinOf(Collect([i \in 1..Len(args) |->
                                 IF args[i] \in DOMAIN vars THEN Ok(PyStr(vars[args[i]]))
                                 ELSE PyEval(StrV(args[i]))])))
    ELSE Ret(self, "Type")

\* [float(self.variables[arg]) if arg in self.variables else float(arg) ...]
\* of subtract, multiply and divide
Floats(self, args) ==
    Collect([i \in 1..Len(args) |-> PyFloat(Resolve(self, args[i]))])

RECURSIVE Product(_)
Product(l) == IF Len(l) = 0 THEN 1 ELSE NumVal(l[1]) * Product(Tail(l))

\* a / b for floats with integer values: the model's doubles are the
\* integer-valued ones, and any other quotient is a value of its own that is
\* no number of the model
Quotient(a, b) ==
    IF b > 0 /\ a % b = 0 THEN DblV(a \div b)
    ELSE IF b < 0 /\ (0 - a) % (0 - b) = 0 THEN DblV((0 - a) \div (0 - b))
    ELSE ObjV(IntText(a) \o <<"/">> \o IntText(b))

\* the destination tests of subtract, multiply and divide for the inputs
\* with outcome inputs and the value that is to be stored
Arith(self, dest, inputs, value) ==
    IF inputs.exc # "" THEN Ret(self, "Type")
    ELSE IF dest \notin DOMAIN self.variables THEN variable(self, dest, value)
    ELSE IF self.variables[dest] \in {Unset(int3), Unset(dbl3)}
    THEN variable(self, dest, value)
    ELSE IF self.variables[dest] = Unset(boo3) THEN Ret(self, "Type")
    ELSE Ret(self, "Variable")

\* inputs[0] - sum(inputs[1:])
Difference(inputs) ==
    IF inputs.exc # "" THEN NoneV
    ELSE DblV(NumVal(inputs.v.v[1]) - Total(Tail(inputs.v.v)))

\* numpy.prod(inputs)
Prod(inputs) == IF inputs.exc # "" THEN NoneV ELSE DblV(Product(inputs.v.v))

\* inputs[0] / numpy.prod(inputs[1:])
Ratio(inputs) ==
    IF inputs.exc # "" THEN NoneV
    ELSE Quotient(NumVal(inputs.v.v[1]), Product(Tail(inputs.v.v)))

\* Interpreter.subtract(dest, first, second, *rest); args is (first, second) + rest
subtract(self, dest, args) ==
    Arith(self, dest, Floats(self, args), Difference(Floats(self, args)))

\* Interpreter.multiply(dest, first, second, *rest)
multiply(self, dest, args) ==
    Arith(self, dest, Floats(self, args), Prod(Floats(self, args)))

\* Interpreter.divide(dest, first, second, *rest)
divide(self, dest, args) ==
    Arith(self, dest, Floats(self, args), Ratio(Floats(self, args)))

(***************************************************************************)
(* Loading a file: tokenised lines, then function extraction.              *)
(***************************************************************************)
\* a function table entry: (params[1:], commands[start+1:end], params[start+1:end])
FunctionDef(sig, body) == [sig |-> sig, body |-> body]

\* a value as a dict key: numbers that are equal are one key (1 == 1.0 == True)
Key(x) == IF x.k \in {"int", "dbl", "bool"} THEN IntV(NumVal(x)) ELSE x
Hashable(x) == x.k # "list"

\* self.functions.update({name: def}); order is the insertion order of the keys
FunUpdate(self, name, def) ==
    [self EXCEPT !.functions = Update(self.functions, name, def),
                 !.order = IF name \in DOMAIN self.functions THEN @ ELSE Append(@, name)]

\* commands.index(c), 0-based, -1 when absent
CmdIndex(commands, c) ==
    IF \E i \in 1..Len(commands) : commands[i].cmd = c
    THEN (CHOOSE i \in 1..Len(commands) :
             commands[i].cmd = c /\ \A j \in 1..(i - 1) : commands[j].cmd # c) - 1
    ELSE -1

\* del list[a:b] for 0 <= a
DelSlice(l, a, b) == IF b <= a THEN l ELSE Slice(l, 0, a) \o Slice(l, b, Len(l))

\* extractStepAgain is extractStep without the test `params[0] in
\* self.functions`: a name can be defined again
extractStepAgain(self) ==
    LET start == CmdIndex(self.commands, "fun")
        params == self.commands[start + 1].params
        end == CmdIndex(self.commands, "ret")
        text == self.commands[start + 1]
    IN
    IF end = -1 THEN printError(self, "Function", "missing return statement", text)
    ELSE IF params[1] = <<>>
    THEN printError(self, "Function", "no function name given", text)
    ELSE Ret([FunUpdate(self, Key(StrV(params[1])),
                        FunctionDef(Tail(params), Slice(self.commands, start + 1, end)))
                EXCEPT !.commands = DelSlice(self.commands, start, end + 1)],
             "True")

\* extractStepThroughRet is extractStep with the body commands[start+1:end+1]:
\* the `ret` is taken into the body
extractStepThroughRet(self) ==
    LET start == CmdIndex(self.commands, "fun")
        params == self.commands[start + 1].params
        end == CmdIndex(self.commands, "ret")
        text == self.commands[start + 1]
    IN
    IF end = -1 THEN printError(self, "Function", "missing return statement", text)
    ELSE IF Key(StrV(params[1])) \in DOMAIN self.functions
    THEN printError(self, "Function", "has already been defined", text)
    ELSE IF params[1] = <<>>
    THEN printError(self, "Function", "no function name given", text)
    ELSE Ret([FunUpdate(self, Key(StrV(params[1])),
                        FunctionDef(Tail(params), Slice(self.commands, start + 1, end + 1)))
                EXCEPT !.commands = DelSlice(self.commands, start, end + 1)],
             "True")

\* one iteration of the while loop of extractFunctions ('fun' in commands)
extractStep(self) ==
    LET start == CmdIndex(self.commands, "fun")
        params == self.commands[start + 1].params
        end == CmdIndex(self.commands, "ret")
        text == self.commands[start + 1]
    IN
    IF end = -1 THEN printError(self, "Function", "missing return statement", text)
    ELSE IF Key(StrV(params[1])) \in DOMAIN self.functions
    THEN printError(self, "Function", "has already been defined", text)
    ELSE IF params[1] = <<>>
    THEN printError(self, "Function", "no function name given", text)
    ELSE Ret([FunUpdate(self, Key(StrV(params[1])),
                        FunctionDef(Tail(params), Slice(self.commands, start + 1, end)))
                EXCEPT !.commands = DelSlice(self.commands, start, end + 1)],
             "True")

\* Interpreter.extractFunctions()
RECURSIVE extractFunctions(_)
\* the while loop goes on after the iteration with outcome r
extractNext(r) == IF r.exc # "" THEN r ELSE extractFunctions(r.self)

extractFunctions(self) ==
    IF CmdIndex(self.commands, "fun") # -1
    THEN extractNext(extractStep(self))
    ELSE IF CmdIndex(self.commands, "ret") # -1
    THEN printError(self, "Function", "return with no function",
                    self.commands[CmdIndex(self.commands, "ret") + 1])
    ELSE Ret(self, "True")

\* the object under construction: empty variables and functions
Fresh(original, commands, depth, log) ==
    [variables |-> <<>>, functions |-> <<>>, order |-> <<>>, original |-> original,
     commands |-> commands, returnName |-> <<>>, depth |-> depth, log |-> log,
     shared |-> <<>>]

\* self.code = list(filter(None, self.original))
Code(original) == SelectSeq(original, LAMBDA l : l # Line("", <<>>))

\* Interpreter(data) for a str data: disk maps the readable file names to
\* their lines
LoadFile(disk, data, depth, log) ==
    IF data.k # "str"
    THEN [self |-> Fresh(<<>>, <<>>, depth, log), ret |-> "None", exc |-> "SystemExit",
          diag |-> Diag("Run", "no file or function dictionary found", -1)]
    ELSE IF data.v \notin DOMAIN disk
    THEN [self |-> Fresh(<<>>, <<>>, depth, log), ret |-> "None", exc |-> "SystemExit",
          diag |-> Diag("File", "unable to read file", -1)]
    ELSE extractFunctions(Fresh(disk[data.v], Code(disk[data.v]), depth, log))

(***************************************************************************)
(* The files on disk that `imp` and `ias` can load.                        *)
(***************************************************************************)
\* the line 'ret': 'ret'[3:].split(',') is ['']
RetLine == Line("ret", <<<<>>>>)

\* l: functions k and f, and a top-level body
LibL ==
    << Line("fun", <<T("k"), T("r")>>), Line("int", <<T("r"), T("2")>>), RetLine,
       Line("fun", <<T("f"), T("r")>>), Line("int", <<T("r"), T("3")>>), RetLine,
       Line("err", <<T("e")>>) >>

\* m: a top-level body, function j that returns its argument and function u
\* that reads n, which is not a parameter
LibM ==
    << Line("int", <<T("z"), T("9")>>),
       Line("fun", <<T("j"), T("r"), T("a")>>), Line("cpy", <<T("r"), T("a")>>), RetLine,
       Line("fun", <<T("u"), T("r")>>), Line("cpy", <<T("r"), T("n")>>), RetLine >>

Disk == [n \in {T("l"), T("m")} |-> IF n = T("l") THEN LibL ELSE LibM]

(***************************************************************************)
(* Import.                                                                 *)
(***************************************************************************)
\* the tokens of ','.join(rest) after a trailing comma: one empty token when
\* rest is empty
JoinTail(rest) == IF Len(rest) = 0 THEN <<<<>>>> ELSE rest

\* the loop of importFun over the names still to import
RECURSIVE importLoop(_, _, _, _)
importLoop(self, handler, text, names) ==
    IF Len(names) = 0 THEN Ret(self, "True")
    ELSE LET fun == IF names[1].k = "str" /\ names[1].v \in DOMAIN self.variables
                    THEN self.variables[names[1].v] ELSE names[1]
         IN
         IF ~Hashable(fun) THEN Exc(self, "TypeError")
         ELSE IF Key(fun) \in DOMAIN self.functions
         THEN IF fun.k # "str" THEN Exc(self, "TypeError")
              ELSE printError(self, "Import", "already defined in this file", text)
         ELSE IF Key(fun) \notin DOMAIN handler.functions
         THEN IF fun.k # "str" THEN Exc(self, "TypeError")
              ELSE printError(self, "Import", "function not declared", text)
         ELSE importLoop(FunUpdate(self, Key(fun), handler.functions[Key(fun)]),
                         handler, text, Tail(names))

\* Interpreter.importFun(fileName, *rest)
importFrom(self, h, fileName, rest) ==
    IF h.exc # "" THEN [h EXCEPT !.self = self]
    ELSE importLoop(self, h.self, Line("imp", <<fileName>> \o JoinTail(rest)),
                    IF Len(rest) > 0 THEN [i \in 1..Len(rest) |-> StrV(rest[i])]
                    ELSE h.self.order)

importFun(self, fileName, rest) ==
    importFrom(self, LoadFile(Disk, Resolve(self, fileName), self.depth + 1, self.log),
               fileName, rest)

\* importAsLoopBoth binding the definition under the name of the source as well,
\* as importFun does
RECURSIVE importAsLoopBoth(_, _, _, _)
importAsLoopBoth(self, handler, text, pairs) ==
    IF Len(pairs) = 0 THEN Ret(self, "True")
    ELSE LET fun == Resolve(self, pairs[1])
             nick == Resolve(self, pairs[2])
         IN
         IF ~Hashable(nick) THEN Exc(self, "TypeError")
         ELSE IF Key(nick) \in DOMAIN self.functions
         THEN IF nick.k # "str" THEN Exc(self, "TypeError")
              ELSE printError(self, "Import", "already defined in this file", text)
         ELSE IF ~Hashable(fun) THEN Exc(self, "TypeError")
         ELSE IF Key(fun) \notin DOMAIN handler.functions
         THEN IF fun.k # "str" THEN Exc(self, "TypeError")
              ELSE printError(self, "Import", "function not declared", text)
         ELSE importAsLoopBoth(FunUpdate(FunUpdate(self, Key(fun), handler.functions[Key(fun)]),
                                             Key(nick), handler.functions[Key(fun)]),
                               handler, text, Tail(Tail(pairs)))

\* the loop of importAs over the (function, nickname) pairs still to import
RECURSIVE importAsLoop(_, _, _, _)
importAsLoop(self, handler, text, pairs) ==
    IF Len(pairs) = 0 THEN Ret(self, "True")
    ELSE LET fun == Resolve(self, pairs[1])
             nick == Resolve(self, pairs[2])
         IN
         IF ~Hashable(nick) THEN Exc(self, "TypeError")
         ELSE IF Key(nick) \in DOMAIN self.functions
         THEN IF nick.k # "str" THEN Exc(self, "TypeError")
              ELSE printError(self, "Import", "already defined in this file", text)
         ELSE IF ~Hashable(fun) THEN Exc(self, "TypeError")
         ELSE IF Key(fun) \notin DOMAIN handler.functions
         THEN IF fun.k # "str" THEN Exc(self, "TypeError")
              ELSE printError(self, "Import", "function not declared", text)
         ELSE importAsLoop(FunUpdate(self, Key(nick), handler.functions[Key(fun)]),
                           handler, text, Tail(Tail(pairs)))

\* Interpreter.importAs(fileName, *rest)
importAsFrom(self, h, fileName, rest) ==
    IF h.exc # "" THEN [h EXCEPT !.self = self]
    ELSE IF Len(rest) % 2 # 0
    THEN printError(self, "Type", "incorrect parameters or number of parameters",
                    Line("ias", <<fileName>> \o JoinTail(rest)))
    ELSE importAsLoop(self, h.self, Line("ias", <<fileName>> \o JoinTail(rest)), rest)

importAs(self, fileName, rest) ==
    importAsFrom(self, LoadFile(Disk, Resolve(self, fileName), self.depth + 1, self.log),
                 fileName, rest)

(***************************************************************************)
(* Calls and the dispatch table.                                           *)
(***************************************************************************)
\* list[line] with Python's negative indices; the caller checks InRange
InRange(commands, line) == 0 - Len(commands) <= line /\ line < Len(commands)
At(commands, line) ==
    IF line >= 0 THEN commands[line + 1] ELSE commands[Len(commands) + line + 1]

\* the mnemonics of self.builtIn that the model covers
builtIn == {"imp", "ias", "add", "sub", "mul", "div", "int", "str", "dbl", "boo", "ils",
            "sls", "dls", "bls", "vls", "pop", "put", "idx", "len", "cpy", "del", "val",
            "err", "com", "rif", "run"}

\* [self.variable(paramNames[i], variables[i]) for i in range(len(paramNames))]
RECURSIVE Seed(_, _, _)
\* the comprehension goes on after the call of variable with outcome r
SeedNext(r, paramNames, args) ==
    IF r.exc # "" THEN r ELSE Seed(r.self, paramNames, args)

Seed(self, paramNames, args) ==
    IF Len(paramNames) = 0 THEN Ret(self, "True")
    ELSE SeedNext(variable(self, paramNames[1], args[1]), Tail(paramNames), Tail(args))

\* self.commands = function[1]; self.params = function[2] after the
\* parameters were seeded with outcome r
Body(r, function) ==
    IF r.exc # "" THEN r
    ELSE Ret([r.self EXCEPT !.commands = function.body,
                            !.returnName = function.sig[1]],
             "True")

\* NewFunction comparing len(function[0]) with len(variables): the return
\* name is counted as a parameter
NewFunctionCounted(caller, args, functionName) ==
    LET self == [Fresh(caller.original, <<>>, caller.depth + 1, caller.log)
                   EXCEPT !.functions = caller.functions, !.order = caller.order]
    IN
    IF ~Hashable(functionName) THEN Exc(self, "TypeError")
    ELSE IF Key(functionName) \notin DOMAIN self.functions THEN Exc(self, "KeyError")
    ELSE LET function == self.functions[Key(functionName)] IN
         IF Len(function.sig) = 0 THEN Exc(self, "IndexError")
         ELSE IF Len(function.sig) # Len(args)
         THEN IF functionName.k # "str" THEN Exc(self, "TypeError")
              ELSE printError(self, "Type", "incorrect number of parameters passed",
                              Line("fun", <<functionName.v>> \o function.sig))
         ELSE Body(Seed(self, Tail(function.sig), args), function)

\* Interpreter(data=original, variables=args, functions=functions,
\* functionName=functionName): the context of a call.  self.functions is
\* the caller's dict itself.
NewFunction(caller, args, functionName) ==
    LET self == [Fresh(caller.original, <<>>, caller.depth + 1, caller.log)
                   EXCEPT !.functions = caller.functions, !.order = caller.order]
    IN
    IF ~Hashable(functionName) THEN Exc(self, "TypeError")
    ELSE IF Key(functionName) \notin DOMAIN self.functions THEN Exc(self, "KeyError")
    ELSE LET function == self.functions[Key(functionName)] IN
         IF Len(function.sig) = 0 THEN Exc(self, "IndexError")
         ELSE IF Len(Tail(function.sig)) # Len(args)
         THEN IF functionName.k # "str" THEN Exc(self, "TypeError")
              ELSE printError(self, "Type", "incorrect number of parameters passed",
                              Line("fun", <<functionName.v>> \o function.sig))
         ELSE Body(Seed(self, Tail(function.sig), args), function)

\* the parameters that variable(paramNames[i], variables[i]) binds to the
\* list object of the caller's variable rest[i]: the first parameter of each
\* name, when its argument names a variable that holds a list
Shares(self, paramNames, rest) ==
    [n \in {paramNames[i] : i \in {j \in DOMAIN rest \cap DOMAIN paramNames :
                /\ Index(paramNames, paramNames[j]) = j - 1
                /\ rest[j] \in DOMAIN self.variables
                /\ self.variables[rest[j]].k = "list"}}
       |-> rest[Index(paramNames, n) + 1]]

\* the text 'run' + name + ',' + dest + ',' + ','.join(rest)
RunText(name, dest, rest) == Line("run", <<name, dest>> \o JoinTail(rest))

\* Interpreter.run(name, dest, *rest) up to the construction of the handler:
\* a failure, or the handler object that runCode(func=True) is called on
Made(self, handler, name, dest, rest) ==
    IF self.depth >= MaxDepth THEN Exc(self, "RecursionError")
    ELSE IF handler.exc = "ValueError"
    THEN printError(self, "", "in running function", RunText(name, dest, rest))
    ELSE IF handler.exc # "" THEN [handler EXCEPT !.self = self]
    ELSE [handler EXCEPT !.self.shared =
             Shares(self, Tail(handler.self.functions[Key(Resolve(self, name))].sig), rest)]

run(self, name, dest, rest) ==
    Made(self,
         NewFunction(self, [i \in 1..Len(rest) |-> Resolve(self, rest[i])],
                     Resolve(self, name)),
         name, dest, rest)

\* `if not self.variable(dest, value): printError(...)`, then True, inside
\* the try block of run, for the outcome stored of variable; True and the
\* failure tags are true values
Stored(self, stored, name, dest, rest) ==
    IF stored.exc = "ValueError"
    THEN printError(self, "", "in running function", RunText(name, dest, rest))
    ELSE IF stored.exc # "" THEN stored
    ELSE IF stored.ret = "None"
    THEN printError(stored.self, "Variable", "has already been declared",
                    RunText(name, dest, rest))
    ELSE Ret(stored.self, "True")

\* Interpreter.run(name, dest, *rest) from the return of handler.runCode:
\* the value of the return variable is stored in dest
runReturn(self, handler, name, dest, rest) ==
    IF handler.returnName \notin DOMAIN handler.variables THEN Exc(self, "KeyError")
    ELSE Stored(self, variable(self, dest, handler.variables[handler.returnName]),
                name, dest, rest)

\* the false branch of runIf
runIfFalse(self, dest) ==
    IF dest \in DOMAIN self.variables /\ self.variables[dest] \in {Unset(str3), Unset(sls3)}
    THEN variable(self, dest, StrV(<<>>))
    ELSE variable(self, dest, StrV(T("0")))

\* `if eval(boolean) == True ... elif eval(boolean) == False` for the
\* outcome lit of eval(boolean)
runIfLit(self, lit, dest) ==
    IF lit.exc # "" THEN Exc(self, lit.exc)
    ELSE IF lit.v = BoolV(TRUE) THEN Ret(self, "Call")
    ELSE IF lit.v = BoolV(FALSE) THEN runIfFalse(self, dest)
    ELSE Ret(self, "None")

\* Interpreter.runIf(boolean, name, dest, *rest); the result "Call" stands
\* for `return self.run(name, dest, *rest)`
runIf(self, cond, dest) ==
    IF cond \in DOMAIN self.variables
    THEN IF PyBool(self.variables[cond]).v THEN Ret(self, "Call")
         ELSE runIfFalse(self, dest)
    ELSE runIfLit(self, PyEval(StrV(cond)), dest)

\* the optional second parameter of int/str/dbl/boo
Opt(params, default) == IF Len(params) = 2 THEN StrV(params[2]) ELSE default

\* the name, destination and arguments of the call made by a run or rif
CallOf(ins) ==
    IF ins.cmd = "rif"
    THEN [name |-> ins.params[2], dest |-> ins.params[3], rest |-> Tail(Tail(Tail(ins.params)))]
    ELSE [name |-> ins.params[1], dest |-> ins.params[2], rest |-> Tail(Tail(ins.params))]

\* the except clauses and result tests of runLine for the outcome r of the
\* handler of instruction ins
Report(r, ins) ==
    CASE r.exc = "SystemExit" -> r
      [] r.exc = "KeyError" ->
            printError(r.self, "Type", "not a recognized command", ins)
      [] r.exc \in {"TypeError", "ValueError"} ->
            printError(r.self, "Type", "incorrect parameter type or number of parameters", ins)
      [] r.exc = "IndexError" -> printError(r.self, "Index", "invalid index", ins)
      [] r.exc = "NameError" ->
            printError(r.self, "Variable", "attempting to use an undeclared variable", ins)
      [] r.exc # "" -> printError(r.self, "", "executing", ins)
      [] r.ret = "True" -> r
      [] r.ret = "None" -> printError(r.self, "", "incorrect syntax or parameters", ins)
      [] r.ret = "Variable" ->
            printError(r.self, "Variable", "has already been declared", ins)
      [] r.ret = "Type" -> printError(r.self, "Type", "incorrect parameter type", ins)
      [] r.ret = "Name" ->
            printError(r.self, "Variable", "attempting to use an undeclared variable", ins)
      [] r.ret = "User" -> printError(r.self, "User", "user", ins)

\* the history entry of an instruction handed to the dispatch table
Logged(self, ins) == [self EXCEPT !.log = Append(@, [at |-> self.depth, ins |-> ins])]

\* `x if x in self.variables else int(x)` of a `for` operand
ForOperand(self, tok) ==
    IF tok \in DOMAIN self.variables THEN Ok(self.variables[tok]) ELSE PyInt(StrV(tok))

(***************************************************************************)
(* The programs of the model.  Every program is a file: the function       *)
(* definitions of Prelude followed by a top-level body.                    *)
(*   f returns its argument; g reads y, which is not a parameter;          *)
(*   h imports k from file l before it returns.                            *)
(* Identifiers of the programs are single letters that no Python scope of  *)
(* the interpreter binds.                                                  *)
(***************************************************************************)
L1(c, a) == Line(c, <<a>>)
L2(c, a, b) == Line(c, <<a, b>>)
L3(c, a, b, d) == Line(c, <<a, b, d>>)
L4(c, a, b, d, e) == Line(c, <<a, b, d, e>>)

Prelude ==
    << L3("fun", T("f"), T("r"), T("a")), L2("cpy", T("r"), T("a")), RetLine,
       L2("fun", T("g"), T("r")), L2("cpy", T("r"), T("y")), RetLine,
       L2("fun", T("h"), T("r")), L2("imp", T("l"), T("k")),
                                  L2("int", T("r"), T("1")), RetLine >>

\* the kind-only declarations and the assignments of the eight typed kinds
Declarations ==
    { L1(c, T("x")) : c \in {"int", "str", "dbl", "boo", "ils", "sls", "dls", "bls"} }
Assignments ==
    { L2("int", T("x"), T("5")), L2("str", T("x"), Quote(T("a"))),
      L2("dbl", T("x"), T("1")), L2("boo", T("x"), TrueText),
      L3("ils", T("x"), T("1"), T("2")), L3("sls", T("x"), T("a"), T("b")),
      L2("dls", T("x"), T("1")), L3("bls", T("x"), TrueText, FalseText) }

\* instructions of the straight-line bodies
Instrs ==
    Declarations \cup Assignments \cup
    { L2("str", T("x"), Quote(int3)), L2("int", T("y"), T("7")),
      L1("vls", T("x")), L2("vls", T("x"), T("1")),
      L2("cpy", T("d"), T("x")), L2("cpy", T("x"), T("y")), L2("cpy", T("d"), T("q")),
      L1("del", T("x")), L1("del", T("d")),
      L3("add", T("x"), T("1"), T("2")), L3("add", T("d"), T("x"), T("1")),
      L3("run", T("f"), T("d"), T("x")), L3("run", T("f"), T("d"), T("1")),
      L3("run", T("f"), T("x"), T("1")), L3("run", T("f"), T("d"), int3),
      L2("run", T("g"), T("d")), L2("run", T("h"), T("d")),
      L2("run", T("f"), T("d")), L4("run", T("f"), T("d"), T("1"), T("2")),
      L2("run", T("k"), T("d")), L3("run", T("k"), T("d"), T("1")),
      L4("rif", TrueText, T("f"), T("d"), T("1")), L4("rif", FalseText, T("f"), T("d"), T("1")),
      L3("rif", TrueText, T("h"), T("d")), L3("rif", TrueText, T("f"), T("d")),
      L2("imp", T("l"), T("k")), L1("imp", T("l")), L1("imp", T("m")),
      L2("imp", T("l"), T("f")), L2("imp", T("l"), T("q")), L1("imp", T("n")),
      L3("ias", T("l"), T("k"), T("f")), L3("ias", T("l"), T("k"), T("q")),
      L3("ias", T("l"), T("q"), T("k")), L3("ias", T("m"), T("j"), T("q")),
      L2("ias", T("m"), T("j")),
      L1("com", T("c")), L1("err", T("e")), L1("nop", T("c")) }

\* all sequences over S of length at most n
SeqsUpTo(S, n) == UNION { [1..m -> S] : m \in 0..n }

\* the `for` instructions with literal operands
ForLines ==
    { L2("for", IntText(i), IntText(n)) : i \in 0..MaxIter, n \in (0 - 1)..MaxLines }

\* instructions of the loop bodies
LoopInstrs ==
    ForLines \cup { L1("com", T("c")), L3("add", T("d"), T("2"), T("3")), L1("del", T("d")) }

\* n times the instruction `com c`
Coms(n) == [k \in 1..n |-> L1("com", T("c"))]

\* the line count of the outer loop of the nested programs
OuterLines == 4

\* com, then a `for i,4` whose four-line body holds a `for j,1` around the
\* instruction ins, with p - 1 lines before it; then com
Nested(i, j, ins, p) ==
    Coms(1) \o << L2("for", IntText(i), IntText(OuterLines)) >> \o Coms(p - 1)
    \o << L2("for", IntText(j), T("1")), ins >> \o Coms(OuterLines - 1 - p) \o Coms(1)

NestedIns == {L3("add", T("d"), T("2"), T("3")), L1("com", T("b"))}

NestedBodies ==
    { Nested(i, j, ins, p) : i \in 0..MaxIter, j \in 0..MaxIter, ins \in NestedIns,
                             p \in 1..(OuterLines - 1) }

\* a `for` whose operands are variables, or whose pointer leaves the program
Special ==
    { << L2("int", T("n"), T("2")), L2("for", T("n"), T("1")), L1("com", T("c")) >>,
      << L2("dbl", T("n"), T("0")), L2("for", T("1"), T("n")), L1("com", T("c")) >>,
      << L2("for", T("1"), <<"-", "9", "9">>), L1("com", T("c")) >>,
      << L1("for", T("1")), L1("com", T("c")) >>,
      << L2("int", T("n"), T("7")), L2("imp", T("m"), T("u")), L2("run", T("u"), T("d")) >>,
      << L2("int", T("y"), T("7")), L2("run", T("g"), T("d")) >> }

\* the mnemonics of the eight typed kinds
Typed == {"int", "str", "dbl", "boo", "ils", "sls", "dls", "bls"}
Declaration(c) == L1(c, T("x"))
Assignment(c) == CHOOSE a \in Assignments : a.cmd = c

\* a declaration, an assignment and a second assignment of each typed kind
Lifecycles == { << Declaration(c), Assignment(c), Assignment(c) >> : c \in Typed }

\* the nine kind-only declarations of x, and `str x,'str'`
Kinds == Declarations \cup {L1("vls", T("x")), L2("str", T("x"), Quote(str3))}

\* an arithmetic instruction with destination x, after nothing, a declaration
\* or an assignment of x
ArithOps ==
    { L3(c, T("x"), T("6"), T("3")) : c \in {"add", "sub", "mul", "div"} }
    \cup { L3("add", T("x"), Quote(T("a")), Quote(T("b"))),
           L3("sub", T("x"), T("6"), T("q")), L2("sub", T("x"), T("6")) }
ArithBodies ==
    { <<op>> : op \in ArithOps }
    \cup { <<s, op>> : s \in Kinds \cup Assignments, op \in ArithOps }

\* a function p that applies the operation c to its parameter and 1, called
\* with a literal token or with a variable
Applies(c) ==
    << L3("fun", T("p"), T("r"), T("a")), L3(c, T("r"), T("a"), T("1")), RetLine >>
CallBodies ==
    { Applies(c) \o << L3("run", T("p"), T("d"), T("5")) >> : c \in {"add", "sub", "mul", "div"} }
    \cup { Applies(c) \o << L2("int", T("x"), T("5")), L3("run", T("p"), T("d"), T("x")) >> :
              c \in {"add", "sub", "mul", "div"} }

\* a `rif` with a false condition, literal or variable, and destination x
\* after nothing, a declaration or an assignment of x
RifBodies ==
    { << L4("rif", FalseText, T("f"), T("x"), T("1")) >>,
      << L2("boo", T("b"), FalseText), L4("rif", T("b"), T("f"), T("x"), T("1")) >>,
      << L2("int", T("b"), T("0")), L4("rif", T("b"), T("f"), T("x"), T("1")) >>,
      << L4("rif", T("0"), T("f"), T("x"), T("1")) >> }
    \cup { << s, L4("rif", FalseText, T("f"), T("x"), T("1")) >> : s \in Kinds \cup Assignments }

\* `val d,x` after nothing, a declaration or an assignment of x
ValBodies ==
    { << L2("val", T("d"), T("x")) >>, << L1("val", T("d")) >>,
      << L1("boo", T("d")), L2("val", T("d"), T("x")) >> }
    \cup { << s, L2("val", T("d"), T("x")) >> :
              s \in Kinds \cup Assignments \cup {L2("vls", T("x"), T("1"))} }

\* what x holds before a list instruction: nothing, lists of two and one
\* elements, the empty list, a string, an integer, a declared IntList
ListSetups ==
    { <<>>,
      << L3("ils", T("x"), T("1"), T("2")) >>,
      << L3("sls", T("x"), T("a"), T("b")) >>,
      << L2("dls", T("x"), T("1")) >>,
      << L2("ils", T("y"), T("1")), L2("pop", T("x"), T("y")) >>,
      << L2("str", T("x"), Quote(<<"a", "b">>)) >>,
      << L2("int", T("x"), T("5")) >>,
      << L1("ils", T("x")) >> }

\* the subscripts of the generated `idx`
Subscripts == {<<"-", "3">>, <<"-", "2">>, <<"-", "1">>, T("0"), T("1"), T("2"), T("q")}

ListOps ==
    { L3("idx", T("d"), T("x"), i) : i \in Subscripts }
    \cup { L2("pop", T("d"), T("x")), L2("len", T("d"), T("x")), L2("cpy", T("d"), T("x")),
           L3("put", T("d"), T("x"), T("x")), L3("put", T("d"), T("x"), T("q")),
           L3("put", T("d"), T("q"), T("x")), L1("pop", T("d")), L2("put", T("d"), T("x")),
           L2("idx", T("d"), T("x")), L1("len", T("d")),
           L1("del", T("x")), L2("del", T("x"), T("q")) }

ListBodies ==
    { s \o <<op>> : s \in ListSetups, op \in ListOps }
    \cup { << L3("ils", T("x"), T("1"), T("2")), L2("int", T("y"), T("7")),
              L3("put", T("d"), a, b) >> : a \in {T("x"), T("y")}, b \in {T("x"), T("y")} }
    \cup { << L3("ils", T("x"), T("1"), T("2")), v, L3("idx", T("d"), T("x"), T("i")) >> :
              v \in { L2("int", T("i"), T("1")), L2("dbl", T("i"), T("1")),
                      L2("boo", T("i"), TrueText), L2("int", T("i"), T("2")) } }
    \cup { << L1(c, T("d")), L3("ils", T("x"), T("1"), T("2")), L2("pop", T("d"), T("x")) >> :
              c \in {"sls", "int"} }

\* a `for` with an operand that is no variable and no integer
ForBodies ==
    { << L2("for", T("q"), T("1")), L1("com", T("c")) >>,
      << L2("for", T("1"), T("q")), L1("com", T("c")) >>,
      << L2("run", T("w"), T("d")) >> }

\* a function s that appends 3 to the list object of its parameter, the same
\* after the parameter was deleted and declared again, and a function t that
\* passes its parameter on to s
Grow == L2("vls", T("q"), AppendCall(T("a"), T("3")))
Mutator ==
    << L3("fun", T("s"), T("r"), T("a")), Grow, L2("int", T("r"), T("1")), RetLine >>
Rebinder ==
    << L3("fun", T("s"), T("r"), T("a")), L1("del", T("a")), L2("ils", T("a"), T("7")),
       Grow, L2("int", T("r"), T("1")), RetLine >>
Relay == << L3("fun", T("t"), T("r"), T("a")), L3("run", T("s"), T("r"), T("a")), RetLine >>
\* calls of s and t with a list, an integer, and a name that is not bound;
\* the append in the file context
SharingBodies ==
    { m \o c : m \in {Mutator, Rebinder},
               c \in { << L3("ils", T("x"), T("1"), T("2")), L3("run", T("s"), T("d"), T("x")) >>,
                       << L3("ils", T("x"), T("1"), T("2")), L2("ils", T("y"), T("7")),
                          L3("run", T("s"), T("d"), T("x")) >>,
                       << L3("ils", T("x"), T("1"), T("2")), L3("run", T("s"), T("d"), T("x")),
                          L3("run", T("s"), T("e"), T("x")) >>,
                       << L2("int", T("x"), T("5")), L3("run", T("s"), T("d"), T("x")) >>,
                       << L3("run", T("s"), T("d"), T("x")) >> } }
    \cup { Mutator \o Relay
             \o << L3("ils", T("x"), T("1"), T("2")), L3("run", T("t"), T("d"), T("x")) >>,
           << L3("ils", T("x"), T("1"), T("2")), L2("vls", T("q"), AppendCall(T("x"), T("3"))) >>,
           << L2("vls", T("q"), AppendCall(T("z"), T("3"))) >> }

Bodies ==
    SeqsUpTo(Instrs, MaxLen) \cup SeqsUpTo(LoopInstrs, MaxLoopLen) \cup NestedBodies
    \cup Special \cup Lifecycles \cup ArithBodies \cup CallBodies \cup RifBodies
    \cup ValBodies \cup ListBodies \cup ForBodies \cup SharingBodies

Programs == { Prelude \o b : b \in Bodies }

(***************************************************************************)
(* The state machine: Interpreter(data=file).runCode().                    *)
(* stack[1] is the file context; a call pushes the context of the callee.  *)
(* A frame holds the fields of its Interpreter object and its position:    *)
(*   line, fl : the pointer of the innermost running walk (the while loop  *)
(*              of runCode, or of the innermost active `for`); fl: the     *)
(*              pointer is a float                                         *)
(*   loops    : the active `for` loops, outermost first; each has the      *)
(*              pointer at of its `for`, its line count lines (fl: a       *)
(*              float) and the iterations left, the running one included   *)
(*   shared   : the parameters still bound to a list object of the caller  *)
(***************************************************************************)
VARIABLES
    original,   \* self.original, the same list in every frame
    functions,  \* self.functions, the same dict in every frame
    order,      \* insertion order of the keys of self.functions
    log,        \* history of the dispatched instructions
    stack,      \* the Interpreter objects of the running calls
    status,     \* "running", "done", "exit" or "crash"
    exc,        \* the exception that ended the run, "" when none
    diag        \* the diagnostic printed by printError

vars == <<original, functions, order, log, stack, status, exc, diag>>

Frame(self) ==
    [variables |-> self.variables, commands |-> self.commands,
     returnName |-> self.returnName, line |-> 0, fl |-> FALSE, loops |-> <<>>,
     shared |-> self.shared]

\* the Interpreter object of the frame at position d of the stack
SelfAt(d) ==
    [variables |-> stack[d].variables, functions |-> functions, order |-> order,
     original |-> original, commands |-> stack[d].commands,
     returnName |-> stack[d].returnName, depth |-> d - 1, log |-> log,
     shared |-> stack[d].shared]

Top == stack[Len(stack)]
Self == SelfAt(Len(stack))
\* the fields of the running context
variables == Top.variables
commands == Top.commands
line == Top.line

Ended(e) ==
    IF e = "" THEN "running"
    ELSE IF e = "SystemExit" THEN "exit"
    ELSE "crash"

\* the state after the constructor ended with outcome made
Start(prog, made) ==
    /\ original = prog
    /\ functions = made.self.functions
    /\ order = made.self.order
    /\ log = <<>>
    /\ stack = <<Frame(made.self)>>
    /\ status = Ended(made.exc)
    /\ exc = made.exc
    /\ diag = made.diag

\* Interpreter(data=file): read, tokenise, extract the functions
Init == \E prog \in Programs : Start(prog, extractFunctions(Fresh(prog, Code(prog), 0, <<>>)))

\* the instruction that the frame at position d is executing
InsAt(d) == At(stack[d].commands, stack[d].line)

\* the except clauses of run in the frame at position d for the exception e
\* of the callee
InRun(d, e) ==
    IF e = "ValueError"
    THEN printError(SelfAt(d), "", "in running function",
                    RunText(CallOf(InsAt(d)).name, CallOf(InsAt(d)).dest,
                            CallOf(InsAt(d)).rest))
    ELSE Exc(SelfAt(d), e)

\* the exception e leaves runCode of the frame at position d: in the file
\* context nothing catches it; in a callee it arrives in run of the caller
\* (except ValueError) and then in the except clauses of the caller's runLine
RECURSIVE Unwind(_, _)
\* out leaves runLine of the frame at position d
Caught(d, out) ==
    IF out.exc = "SystemExit" THEN [exc |-> out.exc, diag |-> out.diag]
    ELSE Unwind(d, out.exc)

Unwind(d, e) ==
    IF d = 1 THEN [exc |-> e, diag |-> NoDiag]
    ELSE Caught(d - 1, Report(InRun(d - 1, e), InsAt(d - 1)))

\* the process ends with the exception and the diagnostic of end
Ends(end) ==
    /\ status' = Ended(end.exc)
    /\ exc' = end.exc
    /\ diag' = end.diag

\* the run ends with the exception or exit r.exc raised in the frame at d
Abort(r, d) ==
    Ends(IF r.exc = "SystemExit" THEN [exc |-> r.exc, diag |-> r.diag]
         ELSE Unwind(d, r.exc))

\* the stack st when the list objects of the context at position d are also
\* bound in its caller: a variable of the caller that a shared name of the
\* callee stands for holds the callee's value of that name, and so on down
\* the stack
RECURSIVE Synced(_, _)
Synced(st, d) ==
    IF d = 1 THEN st
    ELSE Synced([st EXCEPT ![d - 1] =
                    [@ EXCEPT !.variables =
                        [x \in DOMAIN @ |->
                            IF \E n \in DOMAIN st[d].shared : st[d].shared[n] = x
                            THEN st[d].variables[CHOOSE n \in DOMAIN st[d].shared :
                                                    st[d].shared[n] = x]
                            ELSE @[x]]]],
                d - 1)

\* the end of runLine in the top frame for the outcome r of Report: the
\* pointer line + 1 is returned, or the run ends; d is the position of the
\* top frame when the handler may have changed a list object in place, and
\* 1 when it cannot
Continue(r, d) ==
    /\ functions' = r.self.functions
    /\ order' = r.self.order
    /\ log' = r.self.log
    /\ stack' = Synced([stack EXCEPT ![Len(stack)] =
                           [@ EXCEPT !.variables = r.self.variables,
                                     !.shared = r.self.shared,
                                     !.line = IF r.exc = "" THEN @ + 1 ELSE @]],
                       d)
    /\ IF r.exc = "" THEN UNCHANGED <<status, exc, diag>> ELSE Abort(r, Len(stack))
    /\ UNCHANGED original

Proceed(r) == Continue(r, 1)

\* an exception raised in runLine of the top frame outside the try block
Throw(e) ==
    /\ Abort(Exc(Self, e), Len(stack))
    /\ UNCHANGED <<original, functions, order, log, stack>>

\* the walk that holds the pointer: the innermost active `for`
Loop == Top.loops[Len(Top.loops)]
InLoop == Top.loops # <<>>
\* the condition of the while loop of that walk
Walking ==
    IF InLoop THEN Top.line < Loop.at + 1 + Loop.lines
    ELSE Top.line < Len(Top.commands)

\* runLine(line) is called: in a `for` after the EOF test
Running ==
    /\ status = "running"
    /\ Walking
    /\ InLoop => Top.line < Len(Top.commands)
\* self.commands[line] succeeds
Fetch == ~Top.fl /\ InRange(Top.commands, Top.line)
Cur == At(Top.commands, Top.line)

\* the instruction under the pointer has mnemonic c and is dispatched
Exec(c) == Running /\ Fetch /\ Cur.cmd = c /\ Len(log) < MaxLog

\* the object and the parameters that the handler is called with
Here == Logged(Self, Cur)
P == Cur.params
\* calling a handler with a wrong number of parameters
Arity == Exc(Here, "TypeError")

\* self.builtIn[cmd](params...) with outcome r for a handler that makes no
\* call, and the rest of runLine
Handle(c, r) == Exec(c) /\ Proceed(Report(r, Cur))

DoImp == Handle("imp", IF Len(P) >= 1 THEN importFun(Here, P[1], Tail(P)) ELSE Arity)
DoIas == Handle("ias", IF Len(P) >= 1 THEN importAs(Here, P[1], Tail(P)) ELSE Arity)
DoAdd == Handle("add", IF Len(P) >= 3 THEN add(Here, P[1], Tail(P)) ELSE Arity)
DoInt == Handle("int", IF Len(P) \in {1, 2} THEN integer(Here, P[1], Opt(P, NoneV)) ELSE Arity)
DoStr == Handle("str", IF Len(P) \in {1, 2} THEN string(Here, P[1], Opt(P, StrV(str3)))
                       ELSE Arity)
DoDbl == Handle("dbl", IF Len(P) \in {1, 2} THEN double(Here, P[1], Opt(P, NoneV)) ELSE Arity)
DoBoo == Handle("boo", IF Len(P) \in {1, 2} THEN boolean(Here, P[1], Opt(P, NoneV)) ELSE Arity)
DoIls == Handle("ils", IF Len(P) >= 1 THEN intList(Here, P[1], Tail(P)) ELSE Arity)
DoSls == Handle("sls", IF Len(P) >= 1 THEN strList(Here, P[1], Tail(P)) ELSE Arity)
DoDls == Handle("dls", IF Len(P) >= 1 THEN dblList(Here, P[1], Tail(P)) ELSE Arity)
DoBls == Handle("bls", IF Len(P) >= 1 THEN booList(Here, P[1], Tail(P)) ELSE Arity)

\* vls: the handler may have changed a list object in place
DoVls ==
    Exec("vls") /\ Continue(Report(IF Len(P) >= 1 THEN varList(Here, P[1], Tail(P))
                                   ELSE Arity,
                                   Cur),
                            Len(stack))
DoCpy == Handle("cpy", IF Len(P) = 2 THEN copy(Here, P[1], P[2]) ELSE Arity)
DoDel == Handle("del", delete(Here, P))
DoSub == Handle("sub", IF Len(P) >= 3 THEN subtract(Here, P[1], Tail(P)) ELSE Arity)
DoMul == Handle("mul", IF Len(P) >= 3 THEN multiply(Here, P[1], Tail(P)) ELSE Arity)
DoDiv == Handle("div", IF Len(P) >= 3 THEN divide(Here, P[1], Tail(P)) ELSE Arity)
DoPop == Handle("pop", IF Len(P) = 2 THEN pop(Here, P[1], P[2]) ELSE Arity)
DoPut == Handle("put", IF Len(P) = 3 THEN put(Here, P[1], P[2], P[3]) ELSE Arity)
DoIdx == Handle("idx", IF Len(P) = 3 THEN index(Here, P[1], P[2], P[3]) ELSE Arity)
DoLen == Handle("len", IF Len(P) = 2 THEN length(Here, P[1], P[2]) ELSE Arity)
DoVal == Handle("val", IF Len(P) = 2 THEN isAvailable(Here, P[1], P[2]) ELSE Arity)
DoErr == Handle("err", throwErr(Here))
DoCom == Handle("com", comment(Here))

\* runCode of the handler object of outcome made starts, or the failure of
\* run ends runLine
Push(made) ==
    IF made.exc # "" THEN Proceed(Report(made, Cur))
    ELSE /\ stack' = Append(stack, Frame(made.self))
         /\ log' = made.self.log
         /\ UNCHANGED <<original, functions, order, status, exc, diag>>

\* run, and rif with a true condition, call self.run; every other outcome
\* first of the handler ends runLine
Enter(first) ==
    IF first.exc # "" \/ first.ret # "Call" THEN Proceed(Report(first, Cur))
    ELSE Push(run(first.self, CallOf(Cur).name, CallOf(Cur).dest, CallOf(Cur).rest))

DoRun == Exec("run") /\ Enter(IF Len(P) >= 2 THEN Ret(Here, "Call") ELSE Arity)
DoRif == Exec("rif") /\ Enter(IF Len(P) >= 3 THEN runIf(Here, P[1], P[3]) ELSE Arity)

\* runLine of the frame at position d ends with outcome r after its call
\* returned
Resume(d, r) ==
    /\ functions' = r.self.functions
    /\ order' = r.self.order
    /\ log' = r.self.log
    /\ IF r.exc = ""
       THEN /\ stack' = [SubSeq(stack, 1, d) EXCEPT ![d] =
                            [@ EXCEPT !.variables = r.self.variables, !.line = @ + 1]]
            /\ UNCHANGED <<status, exc, diag>>
       ELSE /\ stack' = stack
            /\ Abort(r, d)
    /\ UNCHANGED original

\* the rest of run in the frame at position d after handler.runCode returned
Back(d) ==
    runReturn(SelfAt(d), Top, CallOf(InsAt(d)).name, CallOf(InsAt(d)).dest,
              CallOf(InsAt(d)).rest)

\* handler.runCode(func=True) of the top frame ends: run continues in the
\* caller, whose runLine then returns
Return ==
    /\ status = "running" /\ Len(stack) > 1 /\ ~InLoop /\ ~Walking
    /\ Resume(Len(stack) - 1, Report(Back(Len(stack) - 1), InsAt(Len(stack) - 1)))

\* BeginNoSkip is Begin with `return line + 1` for a loop of no iteration:
\* the walk goes on into the body
BeginNoSkip(iterations, lines) ==
    IF iterations.exc # "" THEN Throw(iterations.exc)
    ELSE IF lines.exc # "" THEN Throw(lines.exc)
    ELSE IF iterations.v.k \notin {"int", "bool"} \/ ~IsNumber(lines.v)
    THEN Throw("TypeError")
    ELSE /\ stack' = [stack EXCEPT ![Len(stack)] =
             IF NumVal(iterations.v) <= 0
             THEN [@ EXCEPT !.line = @ + 1, !.fl = lines.v.k = "dbl"]
             ELSE [@ EXCEPT !.line = @ + 1,
                            !.loops = Append(@, [at |-> Top.line,
                                                 lines |-> NumVal(lines.v),
                                                 fl |-> lines.v.k = "dbl",
                                                 left |-> NumVal(iterations.v)])]]
         /\ UNCHANGED <<original, functions, order, log, status, exc, diag>>

\* the loop of a `for` with operands iterations and lines starts; with no
\* iteration to run the pointer line + 1 + lines is returned
Begin(iterations, lines) ==
    IF iterations.exc # "" THEN Throw(iterations.exc)
    ELSE IF lines.exc # "" THEN Throw(lines.exc)
    ELSE IF iterations.v.k \notin {"int", "bool"} \/ ~IsNumber(lines.v)
    THEN Throw("TypeError")
    ELSE /\ stack' = [stack EXCEPT ![Len(stack)] =
             IF NumVal(iterations.v) <= 0
             THEN [@ EXCEPT !.line = @ + 1 + NumVal(lines.v), !.fl = lines.v.k = "dbl"]
             ELSE [@ EXCEPT !.line = @ + 1,
                            !.loops = Append(@, [at |-> Top.line,
                                                 lines |-> NumVal(lines.v),
                                                 fl |-> lines.v.k = "dbl",
                                                 left |-> NumVal(iterations.v)])]]
         /\ UNCHANGED <<original, functions, order, log, status, exc, diag>>

\* runLine on a `for`: the operands are resolved and the first iteration
\* starts
DoFor ==
    /\ Running /\ Fetch /\ Cur.cmd = "for"
    /\ IF Len(P) # 2
       THEN Proceed(printError(Self, "Type",
                               "incorrect parameter type or number of parameters", Cur))
       ELSE Begin(ForOperand(Self, P[1]), ForOperand(Self, P[2]))

\* LoopNext with `return line + lines`: the last line of the body is taken
\* for the line after the loop
LoopNextShort ==
    /\ status = "running" /\ InLoop /\ ~Walking
    /\ stack' = [stack EXCEPT ![Len(stack)] =
          IF Loop.left > 1
          THEN [@ EXCEPT !.line = Loop.at + 1, !.fl = FALSE,
                         !.loops[Len(Top.loops)].left = @ - 1]
          ELSE [@ EXCEPT !.line = Loop.at + Loop.lines, !.fl = Loop.fl,
                         !.loops = SubSeq(@, 1, Len(@) - 1)]]
    /\ UNCHANGED <<original, functions, order, log, status, exc, diag>>

\* the while loop of a `for` ends: the next iteration starts at line + 1, or
\* after the last one runLine returns line + 1 + lines
LoopNext ==
    /\ status = "running" /\ InLoop /\ ~Walking
    /\ stack' = [stack EXCEPT ![Len(stack)] =
          IF Loop.left > 1
          THEN [@ EXCEPT !.line = Loop.at + 1, !.fl = FALSE,
                         !.loops[Len(Top.loops)].left = @ - 1]
          ELSE [@ EXCEPT !.line = Loop.at + 1 + Loop.lines, !.fl = Loop.fl,
                         !.loops = SubSeq(@, 1, Len(@) - 1)]]
    /\ UNCHANGED <<original, functions, order, log, status, exc, diag>>

\* loopLine >= maxLines inside the while loop of a `for`
LoopEOF ==
    /\ status = "running" /\ InLoop /\ Walking /\ Top.line >= Len(Top.commands)
    /\ Proceed(printError(Self, "Loop", "EOF reached while iterating",
                          At(Top.commands, Loop.at)))

\* a mnemonic that is not in the dispatch table
Unknown ==
    /\ Running /\ Fetch /\ Cur.cmd \notin builtIn \cup {"for"} /\ Len(log) < MaxLog
    /\ Proceed(Report(Exc(Here, "KeyError"), Cur))

\* self.commands[line] fails: the pointer is a float or below -len(commands)
BadPointer ==
    /\ Running /\ ~Fetch
    /\ Throw(IF Top.fl THEN "TypeError" ELSE "IndexError")

\* the while loop of runCode ends in the file context: runCode returns True
Finish ==
    /\ status = "running" /\ Len(stack) = 1 /\ ~InLoop /\ ~Walking
    /\ status' = "done"
    /\ UNCHANGED <<original, functions, order, log, stack, exc, diag>>

Next ==
    \/ DoImp \/ DoIas \/ DoAdd \/ DoInt \/ DoStr \/ DoDbl \/ DoBoo \/ DoIls
    \/ DoSls \/ DoDls \/ DoBls \/ DoVls \/ DoCpy \/ DoDel \/ DoErr \/ DoCom
    \/ DoSub \/ DoMul \/ DoDiv \/ DoPop \/ DoPut \/ DoIdx \/ DoLen \/ DoVal
    \/ DoRun \/ DoRif \/ Return \/ DoFor \/ LoopNext \/ LoopEOF \/ Unknown
    \/ BadPointer \/ Finish

Spec == Init /\ [][Next]_vars

(***************************************************************************)
(* Function extraction step by step: Interpreter(data=file) up to the end  *)
(* of extractFunctions, one step per iteration of its while loop.  The     *)
(* state is that of the file context under construction; status is         *)
(* "loading" while the loop runs and "running" when the constructor has    *)
(* returned.                                                               *)
(***************************************************************************)
\* the lines of the generated files: definitions of f and g, a `fun` with no
\* name, `ret`, two other instructions and the empty line
FileLines ==
    { L2("fun", T("f"), T("r")), L2("fun", T("g"), T("r")), Line("fun", <<<<>>>>), RetLine,
      L1("com", T("c")), L2("int", T("r"), T("1")), Line("", <<>>) }

Files == SeqsUpTo(FileLines, MaxFile)

\* self.commands, self.params after tokenising; self.functions = {}
LoadInit ==
    \E file \in Files :
        /\ original = file
        /\ functions = <<>>
        /\ order = <<>>
        /\ log = <<>>
        /\ stack = <<Frame(Fresh(file, Code(file), 0, <<>>))>>
        /\ status = "loading"
        /\ exc = ""
        /\ diag = NoDiag

\* the state after a part of extractFunctions ended with outcome r; next is
\* the status when r is no failure
Extracted(r, next) ==
    /\ functions' = r.self.functions
    /\ order' = r.self.order
    /\ stack' = [stack EXCEPT ![1].commands = r.self.commands]
    /\ status' = IF r.exc = "" THEN next ELSE Ended(r.exc)
    /\ exc' = r.exc
    /\ diag' = r.diag
    /\ UNCHANGED <<original, log>>

\* `while 'fun' in self.commands`: one iteration
ExtractLoop ==
    /\ status = "loading" /\ CmdIndex(commands, "fun") # -1
    /\ Extracted(extractStep(Self), "loading")

\* the while loop ends: `if 'ret' in self.commands: printError(...)`, and
\* the constructor returns
ExtractEnd ==
    /\ status = "loading" /\ CmdIndex(commands, "fun") = -1
    /\ Extracted(IF CmdIndex(commands, "ret") # -1
                 THEN printError(Self, "Function", "return with no function",
                                 commands[CmdIndex(commands, "ret") + 1])
                 ELSE Ret(Self, "True"),
                 "running")

\* the loop is sequential code: an iteration that can run does run
LoadSpec ==
    LoadInit /\ [][ExtractLoop \/ ExtractEnd]_vars
    /\ WF_vars(ExtractLoop) /\ WF_vars(ExtractEnd)

(***************************************************************************)
(* Properties of the variable store.                                       *)
(***************************************************************************)
\* the top-level body of the running program
TopBody == SubSeq(original, Len(Prelude) + 1, Len(original))
\* the run is over
Stopped == status # "running"
Range(s) == { s[i] : i \in DOMAIN s }
AlreadyDeclared ==
    status' = "exit" /\ diag'.err = "Variable" /\ diag'.desc = "has already been declared"

\* the file context gave x a value: it executed a typed instruction with a
\* value for x, and no `del` of x since
C1_Assigned(x) ==
    \E i \in 1..Len(log) :
        /\ log[i].at = 0
        /\ log[i].ins.cmd \in Typed
        /\ Len(log[i].ins.params) >= 2
        /\ log[i].ins.params[1] = x
        /\ \A j \in (i + 1)..Len(log) :
              ~(log[j].at = 0 /\ log[j].ins.cmd = "del" /\ x \in Range(log[j].ins.params))

\* C1: once a name of the file context holds a value, an instruction other
\* than a `del` of that name leaves the binding as it is, and a typed
\* declaration or assignment of the name fails with the error 'variable
\* already declared'.
C1_SingleAssignment ==
    [][\A x \in DOMAIN variables :
          ( /\ Len(stack) = 1
            /\ C1_Assigned(x)
            /\ Running /\ Fetch /\ Cur.cmd \in builtIn /\ Len(log) < MaxLog
            /\ ~(Cur.cmd = "del" /\ x \in Range(P)) )
          => /\ x \in DOMAIN stack'[1].variables
             /\ stack'[1].variables[x] = variables[x]
             /\ (Cur.cmd \in Typed /\ P[1] = x) => AlreadyDeclared]_vars

\* the marker and the value that the lifecycle of kind c is to store in x
C2_Marker(c) ==
    CASE c = "int" -> Unset(int3) [] c = "str" -> Unset(str3)
      [] c = "dbl" -> Unset(dbl3) [] c = "boo" -> Unset(boo3)
      [] c = "ils" -> Unset(ils3) [] c = "sls" -> Unset(sls3)
      [] c = "dls" -> Unset(dls3) [] c = "bls" -> Unset(bls3)
C2_Value(c) ==
    CASE c = "int" -> IntV(5) [] c = "str" -> StrV(T("a"))
      [] c = "dbl" -> DblV(1) [] c = "boo" -> BoolV(TRUE)
      [] c = "ils" -> ListV(<<IntV(1), IntV(2)>>)
      [] c = "sls" -> ListV(<<StrV(T("a")), StrV(T("b"))>>)
      [] c = "dls" -> ListV(<<DblV(1)>>)
      [] c = "bls" -> ListV(<<BoolV(TRUE), BoolV(FALSE)>>)
C2_Holds(v) == T("x") \in DOMAIN variables /\ variables[T("x")] = v

\* C2: for each of the eight typed kinds, the program that declares x ends
\* with x declared and unset; the program that declares x and assigns it
\* ends with the value cast to the kind; the program that assigns it once
\* more ends with the error 'variable already declared', x holding the
\* first value.
C2_DeclareThenAssign ==
    \A c \in Typed :
        /\ (Stopped /\ TopBody = <<Declaration(c)>>)
              => status = "done" /\ C2_Holds(C2_Marker(c))
        /\ (Stopped /\ TopBody = <<Declaration(c), Assignment(c)>>)
              => status = "done" /\ C2_Holds(C2_Value(c))
        /\ (Stopped /\ TopBody = <<Declaration(c), Assignment(c), Assignment(c)>>)
              => /\ status = "exit" /\ diag.err = "Variable"
                 /\ diag.desc = "has already been declared"
                 /\ C2_Holds(C2_Value(c))

(***************************************************************************)
(* Properties of function calls.                                           *)
(***************************************************************************)
\* the calling frame of the running callee and the instruction of its call
Caller == stack[Len(stack) - 1]
CallIns == InsAt(Len(stack) - 1)

\* the parameter names of the function that the instruction under the
\* pointer calls, and the store paramNames[i] -> resolve(args[i])
C3_ParamNames == Tail(functions[Key(Resolve(Self, CallOf(Cur).name))].sig)
C3_Seeded ==
    [n \in Range(C3_ParamNames) |->
        Resolve(Self, CallOf(Cur).rest[CHOOSE i \in 1..Len(C3_ParamNames) :
                                          C3_ParamNames[i] = n])]

\* C3: a call starts the callee with exactly the bindings paramNames[i] ->
\* resolve(args[i]); a `cpy` in the callee that reads a name bound in the
\* caller and not in the callee fails with the Variable error 'undeclared
\* variable'.
C3_CalleeIsolation ==
    [][/\ Len(stack') = Len(stack) + 1 => stack'[Len(stack')].variables = C3_Seeded
       /\ ( /\ Len(stack) > 1 /\ Running /\ Fetch /\ Len(log) < MaxLog
            /\ Cur.cmd = "cpy" /\ Len(P) = 2
            /\ P[2] \notin DOMAIN variables
            /\ P[2] \in DOMAIN Caller.variables )
          => /\ status' = "exit"
             /\ diag'.err = "Variable"
             /\ diag'.desc = "attempting to use an undeclared variable"]_vars

\* C4: when the callee has finished and the destination of the call holds a
\* concrete value in the caller, the call fails with the error 'variable
\* already declared' and the run ends there.
C4_ReturnAssignment ==
    [][( /\ status = "running" /\ Len(stack) > 1 /\ ~InLoop /\ ~Walking
         /\ Top.returnName \in DOMAIN variables
         /\ CallOf(CallIns).dest \in DOMAIN Caller.variables
         /\ Caller.variables[CallOf(CallIns).dest] \notin Markers )
       => AlreadyDeclared]_vars

\* the function table that the file itself defines
C5_Defined == extractFunctions(Fresh(original, Code(original), 0, <<>>)).self

\* C5: whenever the file context is in control and has executed no `imp` and
\* no `ias` itself, its function table is the one the file defines: the
\* calls it made have added nothing.
C5_TableReadOnly ==
    ( /\ Len(stack) = 1
      /\ \A i \in 1..Len(log) : ~(log[i].at = 0 /\ log[i].ins.cmd \in {"imp", "ias"}) )
    => functions = C5_Defined.functions /\ order = C5_Defined.order

(***************************************************************************)
(* Properties of loops.                                                    *)
(***************************************************************************)
\* the instructions dispatched so far, oldest first
Dispatched == [k \in 1..Len(log) |-> log[k].ins]
\* how often the instruction ins was dispatched
Executions(ins) == Cardinality({ k \in 1..Len(log) : log[k].ins = ins })

\* n times the sequence s
RECURSIVE Rep(_, _)
Rep(n, s) == IF n <= 0 THEN <<>> ELSE s \o Rep(n - 1, s)

AddIns == L3("add", T("d"), T("2"), T("3"))
ComIns == L1("com", T("b"))

\* the instructions that Nested(i, j, ins, p) dispatches when every one of
\* them succeeds: the line before the loop, i times the body with j times
\* ins, and the line after the loop
C6_Expected(i, j, ins, p) ==
    Coms(1) \o Rep(i, Coms(p - 1) \o Rep(j, <<ins>>) \o Coms(OuterLines - 1 - p)) \o Coms(1)

\* C6 as stated: the program with a `for i,4` around a `for j,1` around one
\* `add` ends normally with the add executed i*j times.
C6_AddExecuted ==
    \A i \in 0..MaxIter, j \in 0..MaxIter, p \in 1..(OuterLines - 1) :
        (Stopped /\ TopBody = Nested(i, j, AddIns, p))
        => status = "done" /\ Executions(AddIns) = i * j

\* C6 amended: the program with a `for i,n` around a `for j,1` around one
\* instruction dispatches, when it ends normally, the line before the loop,
\* i times the body with the instruction j times in a row, and then the line
\* at line+1+n, once; with `com` as the instruction it does end normally;
\* with `add` and i*j >= 2 it ends at the second add with the error
\* 'variable already declared'.  (The nested programs are the ones of
\* OuterLines + 3 lines with a `for` as second line.)
C6_NestedCount ==
    (Len(original) = Len(Prelude) + OuterLines + 3 /\ original[Len(Prelude) + 2].cmd = "for")
    => \A i \in 0..MaxIter, j \in 0..MaxIter, p \in 1..(OuterLines - 1), ins \in NestedIns :
        TopBody = Nested(i, j, ins, p)
        => /\ status = "done" => Dispatched = C6_Expected(i, j, ins, p)
           /\ (Stopped /\ ins = ComIns)
                 => status = "done" /\ Executions(ComIns) = i * j
           /\ (Stopped /\ ins = AddIns /\ i * j >= 2)
                 => /\ status = "exit" /\ diag.err = "Variable"
                    /\ diag.desc = "has already been declared"
                    /\ Executions(AddIns) = 2

\* the spec's example with com for add, run to its end: 6 executions
C6_Witness ==
    /\ status = "done"
    /\ TopBody = Nested(3, 2, ComIns, 2)
    /\ Executions(ComIns) = 6

\* C7: a loop whose body span ends past the last instruction never finishes
\* the walk of an iteration: the run ends in that iteration.
C7_LoopOverrun ==
    (status = "running" /\ InLoop /\ ~Walking)
    => Loop.at + 1 + Loop.lines <= Len(commands)

(***************************************************************************)
(* Properties of import and of the parameter count.                        *)
(***************************************************************************)
\* the file that the import under the pointer loads
Loaded == LoadFile(Disk, Resolve(Self, P[1]), Len(stack), log)
\* the key of the function named by the token n
Named(n) == Key(StrV(n))
\* the sourceName and newName tokens of the pairs of an `ias`
Sources == { P[k] : k \in { m \in 2..Len(P) : m % 2 = 0 } }
NewNames == { P[k] : k \in { m \in 3..Len(P) : m % 2 = 1 } }
SourceOf(new) == P[(CHOOSE k \in 3..Len(P) : k % 2 = 1 /\ P[k] = new) - 1]
\* the names an `imp` is to import: the requested ones, or with none
\* requested every function of the loaded file
Requested ==
    IF Len(P) > 1 THEN { Named(P[k]) : k \in 2..Len(P) }
    ELSE DOMAIN Loaded.self.functions

ImportError == status' = "exit" /\ diag'.err = "Import"

\* C8: an `imp` of a name that the table already defines or that the loaded
\* file does not define, and an `ias` whose new name is already defined or
\* whose source name the loaded file does not define, fail with the Import
\* error.
C8_ImportErrors ==
    [][/\ ( /\ Exec("imp") /\ Len(P) >= 1 /\ Loaded.exc = ""
            /\ \E n \in Requested :
                  n \in DOMAIN functions \/ n \notin DOMAIN Loaded.self.functions )
          => ImportError
       /\ ( /\ Exec("ias") /\ Len(P) >= 3 /\ Len(P) % 2 = 1 /\ Loaded.exc = ""
            /\ \/ \E n \in NewNames : Named(n) \in DOMAIN functions
               \/ \E n \in Sources : Named(n) \notin DOMAIN Loaded.self.functions )
          => ImportError]_vars

\* the table after a successful import: the bindings of the table, and for
\* `imp` every requested name with the definition of the loaded file, for
\* `ias` every new name with the definition of its source name
C9_Table ==
    IF Cur.cmd = "imp"
    THEN [n \in DOMAIN functions \cup Requested |->
            IF n \in DOMAIN functions THEN functions[n] ELSE Loaded.self.functions[n]]
    ELSE [n \in DOMAIN functions \cup { Named(m) : m \in NewNames } |->
            IF n \in DOMAIN functions THEN functions[n]
            ELSE Loaded.self.functions[
                    Named(SourceOf(CHOOSE m \in NewNames : Named(m) = n))]]

\* C9: an `imp` or `ias` after which the run goes on has added exactly the
\* requested bindings to the function table, has changed no variable of any
\* context, and has dispatched no instruction but itself: the pointer moved
\* to the next line.
C9_ImportEffect ==
    [][((Exec("imp") \/ Exec("ias")) /\ status' = "running")
       => /\ functions' = C9_Table
          /\ stack' = [stack EXCEPT ![Len(stack)].line = @ + 1]
          /\ log' = Append(log, [at |-> Len(stack) - 1, ins |-> Cur])]_vars

\* `ias l,k,q` was executed in a file that defines f, g and h: q is bound to
\* the definition of k in l, k is not bound, no variable exists
C9_Witness ==
    /\ status = "running" /\ Len(stack) = 1 /\ line = 1
    /\ Dispatched = << L3("ias", T("l"), T("k"), T("q")) >>
    /\ DOMAIN functions = { Named(T("f")), Named(T("g")), Named(T("h")), Named(T("q")) }
    /\ functions[Named(T("q"))] = FunctionDef(<<T("r")>>, << L2("int", T("r"), T("2")) >>)
    /\ variables = <<>>

\* the instruction under the pointer calls a function of the table with a
\* number of arguments that is not the number of its parameter names
C10_Calls ==
    \/ Exec("run") /\ Len(P) >= 2
    \/ Exec("rif") /\ Len(P) >= 3 /\ runIf(Here, P[1], P[3]).ret = "Call"
C10_Callee == Key(Resolve(Self, CallOf(Cur).name))
C10_Mismatch ==
    /\ C10_Calls
    /\ Hashable(Resolve(Self, CallOf(Cur).name))
    /\ C10_Callee \in DOMAIN functions
    /\ Len(functions[C10_Callee].sig) - 1 # Len(CallOf(Cur).rest)
\* the `fun` line of the called function
C10_FunLine == Line("fun", <<CallOf(Cur).name>> \o functions[C10_Callee].sig)

SourceLine == Len(Prelude) + line
\* the file context is about to execute the instruction under its pointer
AtFile == Len(stack) = 1 /\ Running /\ Fetch /\ line >= 0 /\ CmdIndex(TopBody, "fun") = -1
\* the instruction under the pointer makes no call
Plain == Cur.cmd \notin {"run", "rif"}

\* C11: when an instruction of the file context that makes no call fails with
\* a diagnostic that names a line, the line is the source line of that
\* instruction, also when an earlier line has the same text.
C11_SourceLine ==
    [][(AtFile /\ Plain /\ status' = "exit" /\ diag'.line # -1)
       => diag'.line = SourceLine]_vars

\* the error kinds of a formatted diagnostic; '' is the generic kind
ErrorKinds == {"File", "Type", "Index", "Variable", "Loop", "Import", "Function", "User", ""}

\* C12: the execution of an instruction either succeeds, and then a non-loop
\* instruction moves the pointer of its context by exactly 1 (or, for a
\* call, starts the callee), or it ends the run with a formatted diagnostic
\* of a defined error kind; no instruction ends the run in another way.
C12_FatalTyped ==
    [][(Running /\ Fetch)
       => \/ /\ status' = "running"
             /\ Cur.cmd # "for"
                   => \/ /\ Len(stack') = Len(stack)
                         /\ stack'[Len(stack)].line = line + 1
                      \/ /\ Cur.cmd \in {"run", "rif"}
                         /\ Len(stack') = Len(stack) + 1
          \/ status' = "exit" /\ diag'.err \in ErrorKinds]_vars

(***************************************************************************)
(* Properties of arithmetic.                                               *)
(***************************************************************************)
\* the operand tokens of the arithmetic instruction under the pointer
Operands == Tail(P)
\* the file context declared x with `str x` and has executed no instruction
\* with the first parameter x since
DeclaredStr(x) ==
    \E i \in 1..Len(log) :
        /\ log[i] = [at |-> 0, ins |-> L1("str", x)]
        /\ \A j \in (i + 1)..Len(log) :
              ~(log[j].at = 0 /\ x \in Range(log[j].ins.params))
\* the value that the step stored under the name x in the running context
StoredIn(x) == stack'[Len(stack)].variables[x]
\* the step succeeded and left the name x bound in the running context
Wrote(x) ==
    /\ status' = "running" /\ Len(stack') = Len(stack)
    /\ x \in DOMAIN stack'[Len(stack)].variables

\* C13: an `add` of integer literals into a destination that is not bound
\* stores their numeric sum as a float; an `add` of quoted literals into a
\* destination declared by `str d` and not written since stores the
\* concatenation of their texts.
C13_AddByDestination ==
    [][(AtFile /\ Exec("add") /\ Len(P) >= 3)
       => /\ ( /\ P[1] \notin DOMAIN variables
               /\ \A i \in 1..Len(Operands) : IsIntText(Operands[i]) )
             => /\ Wrote(P[1])
                /\ StoredIn(P[1]) =
                      DblV(Total([i \in 1..Len(Operands) |-> IntV(IntTextVal(Operands[i]))]))
          /\ ( /\ DeclaredStr(P[1])
               /\ \A i \in 1..Len(Operands) : IsStrLit(Operands[i]) )
             => /\ Wrote(P[1])
                /\ StoredIn(P[1]) =
                      StrV(Concat([i \in 1..Len(Operands) |->
                                     StrV(SubSeq(Operands[i], 2, Len(Operands[i]) - 1))]))]_vars

\* the four arithmetic mnemonics
ArithCmds == {"add", "sub", "mul", "div"}
\* the arithmetic instruction under the pointer has integer literal operands
Literals == Len(P) >= 3 /\ \A i \in 1..Len(Operands) : IsIntText(Operands[i])
\* their values, and the result of the operation on them
Numbers == [i \in 1..Len(Operands) |-> IntV(IntTextVal(Operands[i]))]
Result ==
    CASE Cur.cmd = "add" -> DblV(Total(Numbers))
      [] Cur.cmd = "sub" -> DblV(Numbers[1].v - Total(Tail(Numbers)))
      [] Cur.cmd = "mul" -> DblV(Product(Numbers))
      [] Cur.cmd = "div" -> Quotient(Numbers[1].v, Product(Tail(Numbers)))
\* declareOrSet(dest, result) in the running context
C14_Write == variable(Self, P[1], Result)
TypeError == status' = "exit" /\ diag'.err = "Type"

\* C14: an `add`, `sub`, `mul` or `div` of integer literals fails with a Type
\* error when the destination is declared Boo and unset; for every other
\* destination (one that holds the text 'str' aside) it writes as
\* declareOrSet does: the result is bound to an absent destination, stored
\* cast to the kind of a declared and unset one (a Type error when the cast
\* fails), and a concrete destination fails with 'variable already declared'.
C14_DestinationPolicy ==
    [][( /\ AtFile /\ Cur.cmd \in ArithCmds /\ Len(log) < MaxLog /\ Literals
         /\ P[1] \in DOMAIN variables => variables[P[1]] # Unset(str3) )
       => IF P[1] \in DOMAIN variables /\ variables[P[1]] = Unset(boo3) THEN TypeError
          ELSE IF C14_Write.exc # "" THEN TypeError
          ELSE IF C14_Write.ret = "Variable" THEN AlreadyDeclared
          ELSE Wrote(P[1]) /\ StoredIn(P[1]) = C14_Write.self.variables[P[1]]]_vars

\* the result of the operation c on the numbers 5 and 1
C15_Value(c) ==
    CASE c = "add" -> DblV(5 + 1) [] c = "sub" -> DblV(5 - 1)
      [] c = "mul" -> DblV(5 * 1) [] c = "div" -> DblV(5 \div 1)

\* C15: the call `run p,d,5` of a function p that applies add, sub, mul or
\* div to its parameter and 1 ends normally with d the result of the
\* operation on the numbers 5 and 1.
C15_LiteralArgument ==
    \A c \in ArithCmds :
        (Stopped /\ TopBody = Applies(c) \o << L3("run", T("p"), T("d"), T("5")) >>)
        => /\ status = "done"
           /\ T("d") \in DOMAIN variables
           /\ variables[T("d")] = C15_Value(c)

(***************************************************************************)
(* Properties of rif and val.                                              *)
(***************************************************************************)
\* the condition of the `rif` under the pointer is false
C16_False ==
    \/ P[1] = FalseText /\ P[1] \notin DOMAIN variables
    \/ P[1] \in DOMAIN variables /\ variables[P[1]] = BoolV(FALSE)

\* C16: a `rif` with a false condition whose destination is absent or
\* declared and unset calls nothing and stores the empty string in a
\* destination declared Str or StrList, and the number 0 in any other.
C16_FalseBranch ==
    [][( /\ AtFile /\ Exec("rif") /\ Len(P) >= 3 /\ C16_False
         /\ P[3] \in DOMAIN variables => variables[P[3]] \in Markers )
       => /\ Wrote(P[3])
          /\ IF P[3] \in DOMAIN variables /\ variables[P[3]] \in {Unset(str3), Unset(sls3)}
             THEN StoredIn(P[3]) = StrV(<<>>)
             ELSE StoredIn(P[3]) \in {IntV(0), DblV(0)}
          /\ log' = Append(log, [at |-> 0, ins |-> Cur])]_vars

\* what the `val` under the pointer stores when the store of the running
\* context is vs
C17_Stores(vs) == isAvailable([Self EXCEPT !.variables = vs], P[1], P[2]).self.variables[P[1]]
\* the store with the tested name concrete, and with the tested name absent
C17_Concrete == Update(variables, P[2], IntV(5))
C17_Absent == [n \in DOMAIN variables \ {P[2]} |-> variables[n]]

\* C17: a `val d,x` with d not bound stores a boolean; the boolean stored
\* when x is declared and unset, of any kind, is not the one stored when x is
\* concrete, and the one stored when x is absent is the one stored when x is
\* concrete.
C17_Separates ==
    [][(AtFile /\ Exec("val") /\ Len(P) = 2 /\ P[1] # P[2] /\ P[1] \notin DOMAIN variables)
       => /\ Wrote(P[1])
          /\ StoredIn(P[1]).k = "bool"
          /\ IF P[2] \in DOMAIN variables /\ variables[P[2]] \in Markers
             THEN StoredIn(P[1]) # C17_Stores(C17_Concrete)
             ELSE StoredIn(P[1]) = C17_Stores(C17_Concrete)
          /\ C17_Stores(C17_Absent) = C17_Stores(C17_Concrete)]_vars

(***************************************************************************)
(* Properties of the list instructions.                                    *)
(***************************************************************************)
\* the parameters of the instruction under the pointer that must name a
\* variable
C18_References ==
    CASE Cur.cmd \in {"cpy", "pop", "len"} /\ Len(P) = 2 -> {P[2]}
      [] Cur.cmd = "idx" /\ Len(P) = 3 -> {P[2]}
      [] Cur.cmd = "put" /\ Len(P) = 3 -> {P[2], P[3]}
      [] Cur.cmd = "del" -> Range(P)
      [] OTHER -> {}
\* the destination of the instruction keeps what it held
C18_Untouched ==
    Cur.cmd # "del"
    => IF P[1] \in DOMAIN variables
       THEN P[1] \in DOMAIN stack'[Len(stack)].variables /\ StoredIn(P[1]) = variables[P[1]]
       ELSE P[1] \notin DOMAIN stack'[Len(stack)].variables

\* C18: a `cpy`, `pop`, `put`, `idx`, `len` or `del`, in any context, with a
\* variable reference that names no binding of the running context ends the
\* run with the Variable error 'undeclared variable' and leaves its
\* destination as it was.
C18_UndeclaredRead ==
    [][(Running /\ Fetch /\ Len(log) < MaxLog /\ C18_References \ DOMAIN variables # {})
       => /\ status' = "exit"
          /\ diag'.err = "Variable"
          /\ diag'.desc = "attempting to use an undeclared variable"
          /\ C18_Untouched]_vars


\* the `idx` under the pointer has an absent destination, a concrete list or
\* string as source and an integer literal as subscript
C19_Indexes ==
    /\ AtFile /\ Exec("idx") /\ Len(P) = 3
    /\ P[1] \notin DOMAIN variables
    /\ P[2] \in DOMAIN variables
    /\ variables[P[2]].k \in {"list", "str"} /\ variables[P[2]] \notin Markers
    /\ P[3] \notin DOMAIN variables /\ IsIntText(P[3])

\* C19: `idx d,x,i` on a list or string x of length n stores the element at
\* the 0-based position i when 0 <= i < n, and fails with the Index error for
\* every other i, the negative ones included.
C19_ZeroBased ==
    [][C19_Indexes
       => IF 0 <= IntTextVal(P[3]) /\ IntTextVal(P[3]) < Len(variables[P[2]].v)
          THEN Wrote(P[1]) /\ StoredIn(P[1]) = Items(variables[P[2]])[IntTextVal(P[3]) + 1]
          ELSE status' = "exit" /\ diag'.err = "Index"]_vars


\* the `pop` under the pointer has a list as source
C20_Pops ==
    /\ AtFile /\ Exec("pop") /\ Len(P) = 2
    /\ P[2] \in DOMAIN variables /\ variables[P[2]].k = "list"
\* the source list, and the source list without its last element
C20_Source == variables[P[2]].v
C20_Front == ListV([i \in 1..(Len(C20_Source) - 1) |-> C20_Source[i]])
\* declareOrSet(dest, front) in the running context
C20_Write == variable(Self, P[1], C20_Front)

\* C20 as stated: a `pop d,x` with d not bound binds d to the list x without
\* its last element, one element shorter than x, for every list x, and
\* leaves x as it was.
C20_PopShorter ==
    [][(C20_Pops /\ P[1] \notin DOMAIN variables)
       => /\ Wrote(P[1])
          /\ StoredIn(P[1]) = C20_Front
          /\ Len(StoredIn(P[1]).v) = Len(C20_Source) - 1
          /\ StoredIn(P[2]) = variables[P[2]]]_vars

\* C20 amended: a `pop d,x` of a list x writes d as declareOrSet does with
\* the list of the elements of x but the last, which is one element shorter
\* than x when x is not empty and empty when x is empty; with d not bound the
\* run goes on with d bound to that list and every other variable, x
\* included, as it was.
C20_PopLast ==
    [][C20_Pops
       => /\ IF C20_Write.exc # "" THEN TypeError
             ELSE IF C20_Write.ret = "Variable" THEN AlreadyDeclared
             ELSE /\ status' = "running"
                  /\ stack' = [stack EXCEPT ![1] = [@ EXCEPT !.variables = C20_Write.self.variables,
                                                              !.line = @ + 1]]
          /\ P[1] \notin DOMAIN variables
                => /\ Wrote(P[1])
                   /\ StoredIn(P[1]) = C20_Front
                   /\ Len(StoredIn(P[1]).v) =
                         IF Len(C20_Source) = 0 THEN 0 ELSE Len(C20_Source) - 1
                   /\ \A n \in DOMAIN variables : StoredIn(n) = variables[n]]_vars

\* `ils x,1,2` and `pop d,x` were executed: d is [1] and x is still [1, 2]
C20_Witness ==
    /\ status = "done"
    /\ Dispatched = << L3("ils", T("x"), T("1"), T("2")), L2("pop", T("d"), T("x")) >>
    /\ variables = Update(Update(<<>>, T("x"), ListV(<<IntV(1), IntV(2)>>)),
                          T("d"), ListV(<<IntV(1)>>))

(***************************************************************************)
(* Properties of the control flow: the pointer a `for` returns.            *)
(***************************************************************************)
\* the operands of the `for` instruction ins, resolved in the running context
C21_Iterations(ins) == ForOperand(Self, ins.params[1])
C21_LineCount(ins) == ForOperand(Self, ins.params[2])
\* a `for` of two operands whose operands resolve to integers
C21_WellFormed(ins) ==
    /\ ins.cmd = "for" /\ Len(ins.params) = 2
    /\ C21_Iterations(ins).exc = "" /\ C21_LineCount(ins).exc = ""
    /\ IsNumber(C21_Iterations(ins).v) /\ IsNumber(C21_LineCount(ins).v)
\* the `for` under the pointer has no iteration to run
C21_NoIteration ==
    /\ Running /\ Fetch /\ C21_WellFormed(Cur)
    /\ NumVal(C21_Iterations(Cur).v) = 0
\* the last iteration of the innermost `for` of the running context ends: in
\* the next state that loop is no longer active
C21_LastEnds ==
    /\ status = "running" /\ InLoop
    /\ Len(stack') = Len(stack)
    /\ Len(stack'[Len(stack)].loops) < Len(Top.loops)
    /\ C21_WellFormed(At(commands, Loop.at))

\* C21: a `for iterations,lineCount` that completes, with literal or variable
\* operands and zero or more iterations, returns the pointer
\* currentLine + 1 + lineCount to the enclosing walk.
C21_LoopExit ==
    [][/\ (C21_NoIteration /\ status' = "running")
            => /\ stack'[Len(stack)].line = line + 1 + NumVal(C21_LineCount(Cur).v)
               /\ stack'[Len(stack)].loops = Top.loops
       /\ C21_LastEnds
            => /\ stack'[Len(stack)].line =
                     Loop.at + 1 + NumVal(C21_LineCount(At(commands, Loop.at)).v)
               /\ stack'[Len(stack)].loops = SubSeq(Top.loops, 1, Len(Top.loops) - 1)]_vars

\* `for 0,1` before one line: the run is over and the line was never executed
C21_Witness ==
    /\ status = "done"
    /\ TopBody = << L2("for", T("0"), T("1")), L1("com", T("c")) >>
    /\ log = <<>>
    /\ line = 2

(***************************************************************************)
(* Properties of function extraction (specification LoadSpec).             *)
(***************************************************************************)
\* the instruction sequence of the file, and the end of the constructor
FileCode == Code(original)
Constructed == status # "loading"
\* extraction failed with a FunctionError
FunctionError == status = "exit" /\ diag.err = "Function"

\* reading the instructions from position i on, with a `fun` open or not, a
\* `ret` comes up while no `fun` is open
RECURSIVE Stray(_, _, _)
Stray(code, i, open) ==
    IF i > Len(code) THEN FALSE
    ELSE IF code[i].cmd = "fun" THEN Stray(code, i + 1, TRUE)
    ELSE IF code[i].cmd = "ret" THEN ~open \/ Stray(code, i + 1, FALSE)
    ELSE Stray(code, i + 1, open)

\* every `fun` of the sequence has a name, and no two have the same name
Distinct(code) ==
    \A i \in 1..Len(code) :
        code[i].cmd = "fun"
        => /\ code[i].params[1] # <<>>
           /\ \A j \in 1..Len(code) :
                 (code[j].cmd = "fun" /\ code[j].params[1] = code[i].params[1]) => j = i

\* C22: a file with a `ret` that no open `fun` precedes (a `ret` before the
\* first `fun` included) fails in extraction with FunctionError 'return with
\* no function'.
C22_StrayReturn ==
    (Constructed /\ Stray(FileCode, 1, FALSE) /\ Distinct(FileCode))
    => FunctionError /\ diag.desc = "return with no function"

\* a `fun` comes after another `fun` with no `ret` between them
NestedDefinition(code) ==
    \E i \in 1..Len(code), j \in 1..Len(code) :
        /\ i < j /\ code[i].cmd = "fun" /\ code[j].cmd = "fun"
        /\ \A k \in (i + 1)..(j - 1) : code[k].cmd # "ret"

\* C23: a file with a `fun` inside a definition fails in extraction with a
\* FunctionError, and the table never holds a definition whose body has a
\* `fun` instruction.
C23_NoNesting ==
    /\ (Constructed /\ NestedDefinition(FileCode) /\ Distinct(FileCode)) => FunctionError
    /\ \A n \in DOMAIN functions :
          \A i \in 1..Len(functions[n].body) : functions[n].body[i].cmd # "fun"

\* the first position from p on of an instruction with mnemonic c, 0 if none
FirstFrom(code, c, p) ==
    IF \E i \in p..Len(code) : code[i].cmd = c
    THEN CHOOSE i \in p..Len(code) :
            code[i].cmd = c /\ \A j \in p..(i - 1) : code[j].cmd # c
    ELSE 0

\* the [fun..ret] spans of a sequence read from left to right from position
\* p on: a span goes from a `fun` to the first `ret` after it, and the next
\* span is looked for behind that `ret`
RECURSIVE Spans(_, _)
SpanTo(code, s, e) == IF e = 0 THEN <<>> ELSE <<[s |-> s, e |-> e]>> \o Spans(code, e + 1)
SpanFrom(code, s) == IF s = 0 THEN <<>> ELSE SpanTo(code, s, FirstFrom(code, "ret", s + 1))
Spans(code, p) == SpanFrom(code, FirstFrom(code, "fun", p))

\* the instructions at the positions of the set keep, in their order
Kept(code, keep) ==
    [j \in 1..Cardinality(keep) |->
        code[CHOOSE i \in keep : Cardinality({m \in keep : m <= i}) = j]]
\* the sequence without its positions inside the spans
Outside(code, spans) ==
    Kept(code, {i \in 1..Len(code) :
                   \A k \in 1..Len(spans) : i < spans[k].s \/ i > spans[k].e})

\* the name that the `fun` at position s defines
Defines(code, s) == Key(StrV(code[s].params[1]))

C24_Holds(code, spans) ==
    /\ DOMAIN functions = {Defines(code, spans[k].s) : k \in 1..Len(spans)}
    /\ \A k \in 1..Len(spans) :
          functions[Defines(code, spans[k].s)].body =
             SubSeq(code, spans[k].s + 1, spans[k].e - 1)
    /\ commands = Outside(code, spans)
    /\ \A i \in 1..Len(commands) : commands[i].cmd \notin {"fun", "ret"}

\* C24: when extraction succeeds, the table holds the functions of the
\* [fun..ret] spans of the file, each with the instructions strictly between
\* its `fun` and the first `ret` after it as body; the top-level program is
\* the file's sequence without the spans, in order, with no `fun` and no `ret`.
C24_Postcondition == status = "running" => C24_Holds(FileCode, Spans(FileCode, 1))

\* `com c` / `fun f,r` / `int r,1` / `ret` was loaded: f has the body
\* `int r,1` and the top-level program is `com c`
C24_Witness ==
    /\ status = "running"
    /\ original = << L1("com", T("c")), L2("fun", T("f"), T("r")),
                     L2("int", T("r"), T("1")), RetLine >>
    /\ DOMAIN functions = {Key(StrV(T("f")))}
    /\ functions[Key(StrV(T("f")))].body = << L2("int", T("r"), T("1")) >>
    /\ commands = << L1("com", T("c")) >>

(***************************************************************************)
(* Progress of the control flow (specification Spec).                      *)
(***************************************************************************)
\* runLine of an instruction other than `for` returns in the running context
C25_Instruction ==
    /\ Running /\ Fetch /\ Cur.cmd # "for"
    /\ status' = "running" /\ Len(stack') = Len(stack)

\* C25: every runLine returns a pointer greater than the line it executed,
\* whatever the operands of a `for` are: an instruction other than `for`, a
\* call that returned, a `for` of no iteration and a `for` after its last
\* iteration.
C25_Progress ==
    [][/\ C25_Instruction => stack'[Len(stack)].line > line
       /\ (status = "running" /\ status' = "running" /\ Len(stack') < Len(stack))
            => stack'[Len(stack')].line > stack[Len(stack')].line
       /\ (C21_NoIteration /\ status' = "running") => stack'[Len(stack)].line > line
       /\ C21_LastEnds => stack'[Len(stack)].line > Loop.at]_vars

\* C27: on every file the extraction loop ends after finitely many
\* iterations, with the constructor returned or with a FunctionError, also
\* when a `ret` comes before the first `fun` and an iteration removes nothing.
C27_Terminates == <>(status = "running" \/ FunctionError)

\* `ret` / `fun f,r`: the first iteration recorded f and removed nothing, the
\* second one ended the run
C27_Witness ==
    /\ original = << RetLine, L2("fun", T("f"), T("r")) >>
    /\ commands = original
    /\ DOMAIN functions = {Key(StrV(T("f")))}
    /\ FunctionError /\ diag.desc = "has already been defined"

(***************************************************************************)
(* The write footprint of the handlers (specification Spec).               *)
(***************************************************************************)
\* the destination parameter of an instruction; the empty name when the
\* instruction has too few parameters to have one
C28_At(params, k) == IF Len(params) >= k THEN params[k] ELSE <<>>
C28_Dest(ins) ==
    CASE ins.cmd = "rif" -> C28_At(ins.params, 3)
      [] ins.cmd = "run" -> C28_At(ins.params, 2)
      [] OTHER -> C28_At(ins.params, 1)
\* the stores before and after agree on every name but dest
C28_Agree(before, after, dest) ==
    \A n \in (DOMAIN before \cup DOMAIN after) \ {dest} :
        n \in DOMAIN before /\ n \in DOMAIN after /\ before[n] = after[n]
\* a handler with a destination is dispatched and returns within the step
C28_Writes ==
    /\ Running /\ Fetch /\ Len(log) < MaxLog /\ Len(stack') = Len(stack)
    /\ Cur.cmd \in builtIn \ {"del", "imp", "ias", "com", "err"}

\* C28: every handler other than del, imp and ias changes at most the binding
\* of its destination in the store of the running context and never changes
\* the function table, from its dispatch to its return (for run and rif: to
\* the return of the call); del removes only names it lists; com and err
\* change no binding.
C28_Footprint ==
    [][/\ C28_Writes
            => /\ C28_Agree(variables, stack'[Len(stack)].variables, C28_Dest(Cur))
               /\ functions' = functions
       /\ (status = "running" /\ Len(stack') < Len(stack))
            => C28_Agree(stack[Len(stack')].variables, stack'[Len(stack')].variables,
                         C28_Dest(InsAt(Len(stack'))))
       /\ (status = "running" /\ Len(stack) > 1) => functions' = functions
       /\ Exec("del")
            => /\ DOMAIN variables \ Range(P) \subseteq DOMAIN stack'[Len(stack)].variables
               /\ \A n \in DOMAIN stack'[Len(stack)].variables :
                     n \in DOMAIN variables /\ stack'[Len(stack)].variables[n] = variables[n]
               /\ functions' = functions
       /\ (Exec("com") \/ Exec("err"))
            => stack'[Len(stack)].variables = variables /\ functions' = functions]_vars

(***************************************************************************)
(* The caller's store during and after a call (specification Spec).        *)
(***************************************************************************)
\* C26: while a call runs, no step changes the store of a context below the
\* running one, and the step that returns from a call successfully leaves
\* the caller's store as it was except for the binding of dest.
C26_CallerFrame ==
    [][(status = "running" /\ Len(stack) > 1)
          => /\ \A d \in 1..(Len(stack) - 1) :
                   d < Len(stack') => stack'[d].variables = stack[d].variables
             /\ (status' = "running" /\ Len(stack') < Len(stack))
                   => C28_Agree(stack[Len(stack')].variables, stack'[Len(stack')].variables,
                                C28_Dest(InsAt(Len(stack'))))]_vars

====
